---- MODULE Spec2Model ----
(***************************************************************************)
(* Model of the grade tracker: the snapshot store and diff engine of       *)
(* src/src/grade_storage.py and the check cycle of src/src/telegram_bot.py *)
(*                                                                         *)
(* Python values are tagged tuples: None, Str(s), Num(n), List(seq) and    *)
(* Dict(pairs), a dict being the insertion-ordered sequence of its         *)
(* <<key, value>> pairs (keys are bare strings, as in JSON).               *)
(***************************************************************************)
EXTENDS Integers, Sequences, FiniteSets, TLC

VARIABLES
    file,          \* data/grades.json: [exists, text], text a token sequence
    pc,            \* the storage process: "down", "idle", "returned", "raised"
    new_grades,    \* compare_and_update: the argument of the current call
    old_grades,    \* compare_and_update: what load() returned in that call
    changes,       \* compare_and_update: the list it returned
    prev_call,     \* argument of the previous completed call (history)
    monitoring,    \* GradeCheckerBot.monitoring
    monitor_task,  \* GradeCheckerBot._monitor_task: a task, or NoTask for None
    check_count,   \* GradeCheckerBot.check_count
    last_check,    \* GradeCheckerBot.last_check: 0 for None, else the check's number
    browser,       \* OISScraper.browser is not None
    logged_in,     \* OISScraper.logged_in
    exam_count,    \* BotStatus.exam_count
    tpc,           \* per task: the await it is suspended at
    tres,          \* per task: the outcome of its check cycle
    tchanges,      \* per task: the changes its check cycle returned
    texams,        \* per task: len(exams) of its check cycle
    cancelled,     \* per monitoring task: cancel() called, not yet delivered
    text,          \* format_changes / format_full_grades: the lines returned
    rows,          \* parse_grades: the component rows of the page it read
    attempt,       \* login: the attempts made so far in the current call
    max_attempts   \* login: its argument in the current call

loginvars == <<attempt, max_attempts>>
callvars == <<pc, new_grades, old_grades, changes, prev_call, text, rows, loginvars>>
storevars == <<file, pc, new_grades, old_grades, changes, prev_call>>
scrapervars == <<browser, logged_in>>
taskvars == <<tpc, tres, tchanges, texams, cancelled>>
botvars == <<monitoring, monitor_task, check_count, last_check, browser, logged_in,
             exam_count, tpc, tres, tchanges, texams, cancelled>>
vars == <<file, pc, new_grades, old_grades, changes, prev_call,
          monitoring, monitor_task, check_count, last_check, browser, logged_in,
          exam_count, tpc, tres, tchanges, texams, cancelled, text, rows, loginvars>>

(***************************************************************************)
(* Python values                                                           *)
(***************************************************************************)
None == <<"None">>
Str(s) == <<"str", s>>
Num(n) == <<"num", n>>
List(items) == <<"list", items>>
Dict(pairs) == <<"dict", pairs>>

IsDict(v) == v[1] = "dict"
IsList(v) == v[1] = "list"
IsStr(v) == v[1] = "str"
Hashable(v) == v[1] \in {"None", "str", "num"}

\* bool(v)
Truthy(v) ==
    CASE v[1] = "None" -> FALSE
      [] v[1] = "str" -> v[2] # ""
      [] v[1] = "num" -> v[2] # 0
      [] OTHER -> Len(v[2]) > 0

HasKey(d, k) == \E i \in 1..Len(d[2]) : d[2][i][1] = k

\* d.get(k, default)
GetD(d, k, default) ==
    IF HasKey(d, k)
    THEN d[2][CHOOSE i \in 1..Len(d[2]) : d[2][i][1] = k][2]
    ELSE default

\* d.get(k)
Get(d, k) == GetD(d, k, None)

\* d[k] = v : a present key keeps its position, a new key goes last
Put(pairs, k, v) ==
    IF \E i \in 1..Len(pairs) : pairs[i][1] = k
    THEN [i \in 1..Len(pairs) |-> IF pairs[i][1] = k THEN <<k, v>> ELSE pairs[i]]
    ELSE Append(pairs, <<k, v>>)

(***************************************************************************)
(* json.dump / json.load, on the token sequence of the document            *)
(***************************************************************************)
RECURSIVE Dump(_)
RECURSIVE DumpMembers(_, _)
RECURSIVE DumpElems(_, _)

DumpMembers(pairs, i) ==
    IF i > Len(pairs) THEN <<>>
    ELSE << <<"key", pairs[i][1]>> >> \o Dump(pairs[i][2]) \o DumpMembers(pairs, i + 1)

DumpElems(items, i) ==
    IF i > Len(items) THEN <<>>
    ELSE Dump(items[i]) \o DumpElems(items, i + 1)

\* numbers written as text (json.dump(..., default=str) on a non-float score)
Dump_NumbersAsText(v) ==
    CASE v[1] = "None" -> << <<"null">> >>
      [] v[1] = "str" -> << v >>
      [] v[1] = "num" -> << <<"str", v[2]>> >>
      [] v[1] = "list" -> << <<"[">> >> \o DumpElems(v[2], 1) \o << <<"]">> >>
      [] v[1] = "dict" -> << <<"{">> >> \o DumpMembers(v[2], 1) \o << <<"}">> >>

Dump(v) ==
    CASE v[1] = "None" -> << <<"null">> >>
      [] v[1] = "str" -> << v >>
      [] v[1] = "num" -> << v >>
      [] v[1] = "list" -> << <<"[">> >> \o DumpElems(v[2], 1) \o << <<"]">> >>
      [] v[1] = "dict" -> << <<"{">> >> \o DumpMembers(v[2], 1) \o << <<"}">> >>

ParseFail == [ok |-> FALSE, val |-> None, next |-> 0]

RECURSIVE ParseValue(_, _)
RECURSIVE ParseMembers(_, _, _)
RECURSIVE ParseElems(_, _, _)

ParseMembers(t, i, acc) ==
    IF i > Len(t) THEN ParseFail
    ELSE IF t[i][1] = "}" THEN [ok |-> TRUE, val |-> Dict(acc), next |-> i + 1]
    ELSE IF t[i][1] = "key"
         THEN LET r == ParseValue(t, i + 1)
              IN  IF r.ok THEN ParseMembers(t, r.next, Put(acc, t[i][2], r.val))
                  ELSE ParseFail
    ELSE ParseFail

ParseElems(t, i, acc) ==
    IF i > Len(t) THEN ParseFail
    ELSE IF t[i][1] = "]" THEN [ok |-> TRUE, val |-> List(acc), next |-> i + 1]
    ELSE LET r == ParseValue(t, i)
         IN  IF r.ok THEN ParseElems(t, r.next, Append(acc, r.val))
             ELSE ParseFail

ParseValue(t, i) ==
    IF i > Len(t) THEN ParseFail
    ELSE CASE t[i][1] = "null" -> [ok |-> TRUE, val |-> None, next |-> i + 1]
           [] t[i][1] \in {"str", "num"} -> [ok |-> TRUE, val |-> t[i], next |-> i + 1]
           [] t[i][1] = "{" -> ParseMembers(t, i + 1, <<>>)
           [] t[i][1] = "[" -> ParseElems(t, i + 1, <<>>)
           [] OTHER -> ParseFail

\* json.load: one value, then end of input; otherwise JSONDecodeError
JsonLoad(t) ==
    LET r == ParseValue(t, 1)
    IN  IF r.ok /\ r.next = Len(t) + 1 THEN r ELSE ParseFail

(***************************************************************************)
(* GradeStorage                                                            *)
(***************************************************************************)
NoFile == [exists |-> FALSE, text |-> <<>>]

\* GradeStorage.load
load(f) ==
    IF ~f.exists THEN Dict(<<>>)
    ELSE LET r == JsonLoad(f.text)
         IN  IF r.ok THEN r.val ELSE Dict(<<>>)

\* GradeStorage.save, run to completion
save(grades) == [exists |-> TRUE, text |-> Dump(grades)]

\* the document written without the test for its existence
EnsureFileExists_AlwaysWrites(f) == save(Dict(<<>>))

\* GradeStorage._ensure_file_exists
EnsureFileExists(f) == IF ~f.exists THEN save(Dict(<<>>)) ELSE f

(***************************************************************************)
(* GradeStorage.compare_and_update                                         *)
(***************************************************************************)
LetterGradeEvent(course_code, course_data, old_letter, new_letter) ==
    [type |-> "letter_grade",
     course_code |-> course_code,
     course_name |-> GetD(course_data, "name", Str("")),
     old_value |-> old_letter,
     new_value |-> new_letter,
     success_score |-> Get(course_data, "success_score")]

\* a missing date reported as the empty text
NewScoreEvent_DateDefault(course_code, course_data, component) ==
    [type |-> "new_score",
     course_code |-> course_code,
     course_name |-> GetD(course_data, "name", Str("")),
     component |-> Get(component, "name"),
     weight |-> Get(component, "weight"),
     score |-> Get(component, "score"),
     date |-> GetD(component, "date", Str(""))]

NewScoreEvent(course_code, course_data, component) ==
    [type |-> "new_score",
     course_code |-> course_code,
     course_name |-> GetD(course_data, "name", Str("")),
     component |-> Get(component, "name"),
     weight |-> Get(component, "weight"),
     score |-> Get(component, "score"),
     date |-> Get(component, "date")]

\* old and new score the wrong way round
ScoreChangeEvent_Swapped(course_code, course_data, component, old_component) ==
    [type |-> "score_change",
     course_code |-> course_code,
     course_name |-> GetD(course_data, "name", Str("")),
     component |-> Get(component, "name"),
     weight |-> Get(component, "weight"),
     old_score |-> Get(component, "score"),
     new_score |-> Get(old_component, "score"),
     date |-> Get(component, "date")]

ScoreChangeEvent(course_code, course_data, component, old_component) ==
    [type |-> "score_change",
     course_code |-> course_code,
     course_name |-> GetD(course_data, "name", Str("")),
     component |-> Get(component, "name"),
     weight |-> Get(component, "weight"),
     old_score |-> Get(old_component, "score"),
     new_score |-> Get(component, "score"),
     date |-> Get(component, "date")]

\* the key of the comparison map: (c.get("name"), c.get("weight"))
\* the weight left out of the key
ComponentKey_NameOnly(c) == <<Get(c, "name"), None>>

\* the date taken into the key
ComponentKey_WithDate(c) == <<Get(c, "name"), Get(c, "weight"), Get(c, "date")>>

ComponentKey(c) == <<Get(c, "name"), Get(c, "weight")>>

\* what `for c in old_components` iterates over; <<>> also for the empty str
IterItems(v) ==
    CASE v[1] = "list" -> v[2]
      [] v[1] = "dict" -> [i \in 1..Len(v[2]) |-> Str(v[2][i][1])]
      [] OTHER -> <<>>

\* building old_component_map raises: a non-iterable, a member without
\* .get, or an unhashable key
OldMapRaises(old_components) ==
    \/ old_components[1] \in {"None", "num"}
    \/ old_components[1] = "str" /\ old_components[2] # ""
    \/ \E i \in 1..Len(IterItems(old_components)) :
          LET c == IterItems(old_components)[i]
          IN  \/ ~IsDict(c)
              \/ ~Hashable(Get(c, "name"))
              \/ ~Hashable(Get(c, "weight"))

\* the map built so that the first member with a key is kept
OldComponent_FirstWins(old_items, key) ==
    IF \E i \in 1..Len(old_items) : ComponentKey(old_items[i]) = key
    THEN old_items[CHOOSE i \in 1..Len(old_items) :
                      /\ ComponentKey(old_items[i]) = key
                      /\ \A j \in 1..(i - 1) :
                            ComponentKey(old_items[j]) # key]
    ELSE None

\* old_component_map.get(key): the last member with that key wins
OldComponent(old_items, key) ==
    IF \E i \in 1..Len(old_items) : ComponentKey(old_items[i]) = key
    THEN old_items[CHOOSE i \in 1..Len(old_items) :
                      /\ ComponentKey(old_items[i]) = key
                      /\ \A j \in (i + 1)..Len(old_items) :
                            ComponentKey(old_items[j]) # key]
    ELSE None

\* the scores compared by identity (`is not`): never the same object after
\* a load
ComponentEvent_IdentityCompare(course_code, course_data, old_items, component) ==
    LET old_component == OldComponent(old_items, ComponentKey(component))
    IN  IF old_component = None
        THEN <<NewScoreEvent(course_code, course_data, component)>>
        ELSE <<ScoreChangeEvent(course_code, course_data, component, old_component)>>

\* the body of the loop over new_components, for one component
ComponentEvent(course_code, course_data, old_items, component) ==
    LET old_component == OldComponent(old_items, ComponentKey(component))
    IN  IF old_component = None
        THEN <<NewScoreEvent(course_code, course_data, component)>>
        ELSE IF Get(component, "score") # Get(old_component, "score")
        THEN <<ScoreChangeEvent(course_code, course_data, component, old_component)>>
        ELSE <<>>

RECURSIVE ComponentEvents(_, _, _, _, _)
ComponentEvents(course_code, course_data, old_items, new_items, i) ==
    IF i > Len(new_items) THEN <<>>
    ELSE ComponentEvent(course_code, course_data, old_items, new_items[i])
         \o ComponentEvents(course_code, course_data, old_items, new_items, i + 1)

\* the body of the loop over new_grades.items(), for one course
CourseRaises(old, course_code) ==
    \/ ~IsDict(old)
    \/ ~IsDict(GetD(old, course_code, Dict(<<>>)))
    \/ OldMapRaises(GetD(GetD(old, course_code, Dict(<<>>)),
                         "components", List(<<>>)))

\* the letter grades compared without the test that the new one is set
CourseEvents_NoTruthy(old, course_code, course_data) ==
    LET old_course == GetD(old, course_code, Dict(<<>>))
        new_letter == Get(course_data, "letter_grade")
        old_letter == Get(old_course, "letter_grade")
        new_components == GetD(course_data, "components", List(<<>>))
        old_components == GetD(old_course, "components", List(<<>>))
        letter == IF new_letter # old_letter
                  THEN <<LetterGradeEvent(course_code, course_data,
                                          old_letter, new_letter)>>
                  ELSE <<>>
    IN  letter \o ComponentEvents(course_code, course_data,
                                  IterItems(old_components),
                                  new_components[2], 1)

\* the component loop run over the stored components against the new ones
CourseEvents_Swapped(old, course_code, course_data) ==
    LET old_course == GetD(old, course_code, Dict(<<>>))
        new_letter == Get(course_data, "letter_grade")
        old_letter == Get(old_course, "letter_grade")
        new_components == GetD(course_data, "components", List(<<>>))
        old_components == GetD(old_course, "components", List(<<>>))
        letter == IF Truthy(new_letter) /\ new_letter # old_letter
                  THEN <<LetterGradeEvent(course_code, course_data,
                                          old_letter, new_letter)>>
                  ELSE <<>>
    IN  letter \o ComponentEvents(course_code, course_data,
                                  new_components[2],
                                  IterItems(old_components), 1)

\* the letter-grade test placed after the component loop
CourseEvents_LetterLast(old, course_code, course_data) ==
    LET old_course == GetD(old, course_code, Dict(<<>>))
        new_letter == Get(course_data, "letter_grade")
        old_letter == Get(old_course, "letter_grade")
        new_components == GetD(course_data, "components", List(<<>>))
        old_components == GetD(old_course, "components", List(<<>>))
        letter == IF Truthy(new_letter) /\ new_letter # old_letter
                  THEN <<LetterGradeEvent(course_code, course_data,
                                          old_letter, new_letter)>>
                  ELSE <<>>
    IN  ComponentEvents(course_code, course_data,
                        IterItems(old_components),
                        new_components[2], 1) \o letter

\* a course that the stored state does not have is taken as a first sight
\* and skipped
CourseEvents_SkipAbsent(old, course_code, course_data) ==
    LET old_course == GetD(old, course_code, Dict(<<>>))
        new_letter == Get(course_data, "letter_grade")
        old_letter == Get(old_course, "letter_grade")
        new_components == GetD(course_data, "components", List(<<>>))
        old_components == GetD(old_course, "components", List(<<>>))
        letter == IF Truthy(new_letter) /\ new_letter # old_letter
                  THEN <<LetterGradeEvent(course_code, course_data,
                                          old_letter, new_letter)>>
                  ELSE <<>>
    IN  IF ~HasKey(old, course_code) THEN <<>>
        ELSE letter \o ComponentEvents(course_code, course_data,
                                       IterItems(old_components),
                                       new_components[2], 1)

CourseEvents(old, course_code, course_data) ==
    LET old_course == GetD(old, course_code, Dict(<<>>))
        new_letter == Get(course_data, "letter_grade")
        old_letter == Get(old_course, "letter_grade")
        new_components == GetD(course_data, "components", List(<<>>))
        old_components == GetD(old_course, "components", List(<<>>))
        letter == IF Truthy(new_letter) /\ new_letter # old_letter
                  THEN <<LetterGradeEvent(course_code, course_data,
                                          old_letter, new_letter)>>
                  ELSE <<>>
    IN  letter \o ComponentEvents(course_code, course_data,
                                  IterItems(old_components),
                                  new_components[2], 1)

RECURSIVE DiffEvents(_, _, _)
DiffEvents(old, new, i) ==
    IF i > Len(new[2]) THEN <<>>
    ELSE CourseEvents(old, new[2][i][1], new[2][i][2]) \o DiffEvents(old, new, i + 1)

DiffRaises(old, new) ==
    \E i \in 1..Len(new[2]) : CourseRaises(old, new[2][i][1])

(***************************************************************************)
(* The snapshots OISScraper.parse_grades can return                        *)
(***************************************************************************)
MaxComps == 2       \* components per course
MaxCourses == 2     \* courses per snapshot

Component(name, weight, score, date) ==
    Dict(<< <<"name", name>>, <<"weight", weight>>,
            <<"score", score>>, <<"date", date>> >>)

Course(code, name, letter, success, comps) ==
    Dict(<< <<"code", Str(code)>>, <<"name", name>>,
            <<"letter_grade", letter>>, <<"success_score", success>>,
            <<"components", List(comps)>> >>)

Codes == {"C1", "C2"}
\* name and success score as the page shows them, before and after grading
CourseHeads == {<<Str("Calc"), None>>, <<Str("Calculus I"), Num(92)>>}
Letters == {None, Str("A"), Str("B")}
Weights == {None, Num(40)}
Scores == {Num(70), Num(75)}
Dates == {None, Str("12.05")}

Quiz == Component(Str("Quiz"), Num(10), Num(50), None)

Components ==
    {Component(Str("Midterm"), w, s, d) : w \in Weights, s \in Scores, d \in Dates}
    \cup {Quiz}

\* parse_grades renames a repeated label, so names are distinct in a course
DistinctNames(comps) ==
    \A i, j \in 1..Len(comps) : i # j => Get(comps[i], "name") # Get(comps[j], "name")

ComponentLists ==
    {comps \in UNION {[1..n -> Components] : n \in 0..MaxComps} : DistinctNames(comps)}

\* a page showing one course: every field varies
DetailedCourses(code) ==
    {Course(code, h[1], l, h[2], comps) :
        h \in CourseHeads, l \in Letters, comps \in ComponentLists}

\* a page showing several courses: letter grade and one component vary
PlainCourses(code) ==
    {Course(code, Str("Calc"), l, None, comps) :
        l \in {None, Str("A")},
        comps \in {<<>>, <<Component(Str("Midterm"), Num(40), Num(70), None)>>}}

Pages(codes) ==
    IF Len(codes) = 1
    THEN {Dict(<< <<codes[1], d>> >>) : d \in DetailedCourses(codes[1])}
    ELSE {Dict(<< <<codes[1], d>>, <<codes[2], e>> >>) :
             d \in PlainCourses(codes[1]), e \in PlainCourses(codes[2])}

CodeLists ==
    {cs \in UNION {[1..n -> Codes] : n \in 1..MaxCourses} :
        \A i, j \in 1..Len(cs) : i # j => cs[i] # cs[j]}

Snapshots == {Dict(<<>>)} \cup UNION {Pages(cs) : cs \in CodeLists}

(***************************************************************************)
(* The documents grades.json can hold when the process starts              *)
(***************************************************************************)
Midterm70 == Component(Str("Midterm"), Num(40), Num(70), None)

InitialFiles ==
    {NoFile,
     [exists |-> TRUE, text |-> <<>>],
     [exists |-> TRUE, text |-> << <<"[">>, <<"]">> >>],
     [exists |-> TRUE, text |-> << <<"null">> >>],
     save(Dict(<< <<"C1", Num(5)>> >>)),
     save(Dict(<< <<"C1", Course("C1", Str("Calc"), None, None,
                     <<Component(Str("Midterm"), Num(40), None, None)>>)>> >>)),
     save(Dict(<< <<"C1", Course("C1", Str("Calc"), Str("A"), None,
                     <<Midterm70, Component(Str("Midterm"), Num(40), Num(75), None)>>)>> >>))}

(***************************************************************************)
(* The storage process                                                     *)
(***************************************************************************)
\* the tasks of the event loop: the dispatcher, that runs one handler at a
\* time, and the monitoring loops created by start
MaxMonTasks == 2
MonTasks == 1..MaxMonTasks
Tasks == {0} \cup MonTasks
Dispatcher == 0
NoTask == -1

\* GradeCheckerBot.__init__, OISScraper.__init__, BotStatus
BotInit ==
    /\ monitoring = FALSE
    /\ monitor_task = NoTask
    /\ check_count = 0
    /\ last_check = 0
    /\ browser = FALSE
    /\ logged_in = FALSE
    /\ exam_count = 0
    /\ tpc = [t \in Tasks |-> "idle"]
    /\ tres = [t \in Tasks |-> "pending"]
    /\ tchanges = [t \in Tasks |-> <<>>]
    /\ texams = [t \in Tasks |-> 0]
    /\ cancelled = [t \in MonTasks |-> FALSE]

Init ==
    /\ file \in InitialFiles
    /\ pc = "down"
    /\ new_grades = None
    /\ old_grades = None
    /\ changes = <<>>
    /\ prev_call = None
    /\ text = <<>>
    /\ rows = <<>>
    /\ attempt = 0
    /\ max_attempts = 0
    /\ BotInit

\* GradeStorage.__init__
Construct ==
    /\ pc = "down"
    /\ pc' = "idle"
    /\ file' = EnsureFileExists(file)
    /\ UNCHANGED <<new_grades, old_grades, changes, prev_call>>
    /\ UNCHANGED <<botvars, text, rows, loginvars>>

\* the save skipped when nothing changed
CompareAndUpdate_SaveOnChange(S) ==
    /\ pc = "idle"
    /\ LET old == load(file)
       IN  /\ new_grades' = S
           /\ old_grades' = old
           /\ IF DiffRaises(old, S)
              THEN /\ pc' = "raised"
                   /\ changes' = <<>>
                   /\ file' = file
              ELSE /\ pc' = "returned"
                   /\ changes' = DiffEvents(old, S, 1)
                   /\ file' = IF DiffEvents(old, S, 1) = <<>> THEN file ELSE save(S)
    /\ UNCHANGED prev_call
    /\ UNCHANGED <<botvars, text, rows, loginvars>>

\* compare_and_update(S), from the load to the return or the exception
CompareAndUpdate(S) ==
    /\ pc = "idle"
    /\ LET old == load(file)
       IN  /\ new_grades' = S
           /\ old_grades' = old
           /\ IF DiffRaises(old, S)
              THEN /\ pc' = "raised"
                   /\ changes' = <<>>
                   /\ file' = file
              ELSE /\ pc' = "returned"
                   /\ changes' = DiffEvents(old, S, 1)
                   /\ file' = save(S)
    /\ UNCHANGED prev_call
    /\ UNCHANGED <<botvars, text, rows, loginvars>>

\* the caller takes the result; the locals of the call are gone
Return ==
    /\ pc \in {"returned", "raised"}
    /\ pc' = "idle"
    /\ prev_call' = IF pc = "returned" THEN new_grades ELSE prev_call
    /\ new_grades' = None
    /\ old_grades' = None
    /\ changes' = <<>>
    /\ UNCHANGED file
    /\ UNCHANGED <<botvars, text, rows, loginvars>>

\* open(grades_file, "w") truncates, json.dump writes the document in
\* pieces: a process killed inside save leaves a proper prefix of it
PartialWrites(grades) ==
    LET doc == Dump(grades)
    IN  {[exists |-> TRUE, text |-> SubSeq(doc, 1, n)] :
            n \in {0, Len(doc) - 1}}

SaveInterrupted(S) ==
    /\ pc = "idle"
    /\ ~DiffRaises(load(file), S)
    /\ file' \in PartialWrites(S)
    /\ pc' = "down"
    /\ prev_call' = None
    /\ UNCHANGED <<new_grades, old_grades, changes>>
    /\ UNCHANGED <<botvars, text, rows, loginvars>>

\* the process exits (restart handler: os.execl) between two calls
Restart ==
    /\ pc = "idle"
    /\ pc' = "down"
    /\ UNCHANGED <<file, new_grades, old_grades, changes, prev_call>>
    /\ UNCHANGED <<botvars, text, rows, loginvars>>

Next ==
    \/ Construct
    \/ \E S \in Snapshots : CompareAndUpdate(S)
    \/ Return
    \/ Restart

Spec == Init /\ [][Next]_vars

\* the same process on a host that can kill it at any point of a save
NextCrash ==
    \/ Next
    \/ \E S \in Snapshots : SaveInterrupted(S)

SpecCrash == Init /\ [][NextCrash]_vars

(***************************************************************************)
(* One GradeStorage object and its caller: the snapshot is an object the   *)
(* caller holds before the call and after it                               *)
(***************************************************************************)
\* the collections a caller can hand to save: the snapshots, and what a
\* document written by hand or by an older version holds
Collections ==
    Snapshots \cup {load(f) : f \in {g \in InitialFiles : IsDict(load(g))}}

\* a dict without some of its keys
Without(d, keys) == Dict(SelectSeq(d[2], LAMBDA pr : pr[1] \notin keys))

\* snapshots whose course or component lacks optional fields, as a caller
\* other than parse_grades can build them
PartialComponents ==
    {Without(Component(Str("Midterm"), Num(40), s, Str("12.05")), ks) :
        s \in Scores, ks \in SUBSET {"weight", "date"}}

CourseFieldsLeftOut ==
    {{}, {"name"}, {"letter_grade"}, {"success_score"}, {"components"},
     {"name", "letter_grade", "success_score", "components"}}

PartialSnapshots ==
    {Dict(<< <<"C1", Without(Course("C1", Str("Calc"), Str("A"), Num(92), comps),
                             ks)>> >>) :
        comps \in {<<>>} \cup {<<c>> : c \in PartialComponents},
        ks \in CourseFieldsLeftOut}

InitStore ==
    /\ file \in {EnsureFileExists(f) : f \in InitialFiles}
    /\ pc = "idle"
    /\ new_grades = None
    /\ old_grades = None
    /\ changes = <<>>
    /\ prev_call = None
    /\ text = <<>>
    /\ rows = <<>>
    /\ attempt = 0
    /\ max_attempts = 0
    /\ BotInit

\* the caller builds the snapshot and calls compare_and_update with it
Call(S) ==
    /\ pc = "idle"
    /\ pc' = "called"
    /\ new_grades' = S
    /\ UNCHANGED <<file, old_grades, changes, prev_call>>
    /\ UNCHANGED <<botvars, text, rows, loginvars>>

ReverseComponents(grades) ==
    Dict([i \in 1..Len(grades[2]) |->
            LET comps == GetD(grades[2][i][2], "components", List(<<>>))[2]
            IN  <<grades[2][i][1],
                  Dict(Put(grades[2][i][2][2], "components",
                           List([k \in 1..Len(comps) |->
                                    comps[Len(comps) + 1 - k]])))>>])

\* the component lists of the argument reordered in place before the save
CompareAndUpdateBody_ReordersArgument ==
    /\ pc = "called"
    /\ LET old == load(file)
       IN  /\ old_grades' = old
           /\ IF DiffRaises(old, new_grades)
              THEN /\ pc' = "raised"
                   /\ changes' = <<>>
                   /\ file' = file
                   /\ new_grades' = new_grades
              ELSE /\ pc' = "returned"
                   /\ changes' = DiffEvents(old, new_grades, 1)
                   /\ new_grades' = ReverseComponents(new_grades)
                   /\ file' = save(ReverseComponents(new_grades))
    /\ UNCHANGED prev_call
    /\ UNCHANGED <<botvars, text, rows, loginvars>>

\* the body of compare_and_update on the object passed in: new_grades is
\* read by .items(), .get and json.dump, and no statement writes to it
CompareAndUpdateBody ==
    /\ pc = "called"
    /\ LET old == load(file)
       IN  /\ old_grades' = old
           /\ new_grades' = new_grades
           /\ IF DiffRaises(old, new_grades)
              THEN /\ pc' = "raised"
                   /\ changes' = <<>>
                   /\ file' = file
              ELSE /\ pc' = "returned"
                   /\ changes' = DiffEvents(old, new_grades, 1)
                   /\ file' = save(new_grades)
    /\ UNCHANGED prev_call
    /\ UNCHANGED <<botvars, text, rows, loginvars>>

\* storage.save(X)
Save(X) ==
    /\ pc = "idle"
    /\ pc' = "saved"
    /\ new_grades' = X
    /\ file' = save(X)
    /\ UNCHANGED <<old_grades, changes, prev_call>>
    /\ UNCHANGED <<botvars, text, rows, loginvars>>

\* storage.load(), next
Load ==
    /\ pc = "saved"
    /\ pc' = "loaded"
    /\ old_grades' = load(file)
    /\ UNCHANGED <<file, new_grades, changes, prev_call>>
    /\ UNCHANGED <<botvars, text, rows, loginvars>>

\* the caller drops the objects of the call
Drop ==
    /\ pc \in {"returned", "raised", "loaded"}
    /\ pc' = "idle"
    /\ new_grades' = None
    /\ old_grades' = None
    /\ changes' = <<>>
    /\ UNCHANGED <<file, prev_call>>
    /\ UNCHANGED <<botvars, text, rows, loginvars>>

NextStore ==
    \/ \E S \in Snapshots \cup PartialSnapshots : Call(S)
    \/ CompareAndUpdateBody
    \/ \E X \in Collections : Save(X)
    \/ Load
    \/ Drop

SpecStore == InitStore /\ [][NextStore]_vars

(***************************************************************************)
(* format_changes and format_full_grades. A message is the sequence of its *)
(* lines; a line is a tagged tuple of the values its f-string prints       *)
(***************************************************************************)
\* `a or b`
Or(a, b) == IF Truthy(a) THEN a ELSE b

\* str(v) in an f-string: None prints as the text None
Fmt(v) == IF v = None THEN Str("None") ELSE v

\* f"%{weight}" if weight else ""
WeightText(weight) == IF Truthy(weight) THEN <<"%", weight>> ELSE Str("")

\* the placeholder glyph, a long dash in the source
Dash == Str("-")

EmptyLine == <<"">>
ChangesTitle == <<"title", "Not Degisikligi!">>
FullTitle == <<"title", "Guncel Not Durumu">>
NoGradesText == <<"text", "Henuz kayitli not yok.">>

\* f"*{name}*", after the book sign
HeaderLine(name) == <<"header", Fmt(name)>>

\* f"   Not: {old} -> *{grade}* ({score})"
LetterChangeLine(old, grade, score) == <<"grade_change", Fmt(old), Fmt(grade), Fmt(score)>>

\* f"   Not: *{letter}* ({score})"
GradeLine(letter, score) == <<"grade", Fmt(letter), Fmt(score)>>

\* f"   . {name} {weight}: *{score}*"
ScoreLine(name, weight, score) == <<"score", Fmt(name), weight, Fmt(score)>>

\* f"   . {name}: {old} -> *{new}*"
ScoreChangeLine(name, old, new) == <<"score_change", Fmt(name), Fmt(old), Fmt(new)>>

\* "\n".join(lines).strip(): the empty lines at both ends are dropped
RECURSIVE Strip(_)
Strip(lines) ==
    IF lines = <<>> THEN lines
    ELSE IF lines[Len(lines)] = EmptyLine THEN Strip(SubSeq(lines, 1, Len(lines) - 1))
    ELSE IF lines[1] = EmptyLine THEN Strip(Tail(lines))
    ELSE lines

\* the entry format_changes opens for a course code
NewGroup(change) ==
    Dict(<< <<"name", change.course_name>>, <<"letter_grade", None>>,
            <<"success_score", None>>, <<"components", List(<<>>)>> >>)

\* the entry of the course after one change is filed in it
FileChange(data, change) ==
    CASE change.type = "letter_grade" ->
            Dict(Put(Put(data[2], "letter_grade",
                         Dict(<< <<"old", Or(change.old_value, Dash)>>,
                                 <<"new", change.new_value>> >>)),
                     "success_score", change.success_score))
      [] change.type = "new_score" ->
            Dict(Put(data[2], "components",
                     List(Append(Get(data, "components")[2],
                                 Dict(<< <<"action", Str("new")>>,
                                         <<"name", change.component>>,
                                         <<"weight", change.weight>>,
                                         <<"score", change.score>> >>)))))
      [] change.type = "score_change" ->
            Dict(Put(data[2], "components",
                     List(Append(Get(data, "components")[2],
                                 Dict(<< <<"action", Str("change")>>,
                                         <<"name", change.component>>,
                                         <<"weight", change.weight>>,
                                         <<"old", change.old_score>>,
                                         <<"new", change.new_score>> >>)))))
      [] OTHER -> data

\* a new group opened whenever the course code differs from that of the
\* change before (grouping of consecutive runs)
RECURSIVE GroupChanges_ByRun(_, _, _)
GroupChanges_ByRun(changes_, i, courses) ==
    IF i > Len(changes_) THEN courses
    ELSE LET change == changes_[i]
             code == change.course_code
             opened == IF courses # <<>> /\ courses[Len(courses)][1] = code
                       THEN courses
                       ELSE Append(courses, <<code, NewGroup(change)>>)
         IN  GroupChanges_ByRun(changes_, i + 1,
                 [opened EXCEPT ![Len(opened)] =
                     <<code, FileChange(opened[Len(opened)][2], change)>>])

\* the first loop of format_changes: `courses`, from change i on
RECURSIVE GroupChanges(_, _, _)
GroupChanges(changes_, i, courses) ==
    IF i > Len(changes_) THEN courses
    ELSE LET change == changes_[i]
             code == change.course_code
             opened == IF HasKey(Dict(courses), code) THEN courses
                       ELSE Append(courses, <<code, NewGroup(change)>>)
         IN  GroupChanges(changes_, i + 1,
                 Put(opened, code, FileChange(Get(Dict(opened), code), change)))

\* the line of one entry of data["components"]
ComponentLine(comp) ==
    IF Get(comp, "action") = Str("new")
    THEN ScoreLine(Get(comp, "name"), WeightText(Get(comp, "weight")), Get(comp, "score"))
    ELSE ScoreChangeLine(Get(comp, "name"), Get(comp, "old"), Get(comp, "new"))

\* the grade line written after the component lines
ChangeBlock_LetterLast(code, data) ==
    LET name == Or(Get(data, "name"), Str(code))
        comps == Get(data, "components")[2]
        head == IF Truthy(Get(data, "letter_grade"))
                THEN <<LetterChangeLine(Get(Get(data, "letter_grade"), "old"),
                                        Get(Get(data, "letter_grade"), "new"),
                                        Or(Get(data, "success_score"), Str("")))>>
                ELSE <<>>
    IN  <<HeaderLine(name)>> \o [k \in 1..Len(comps) |-> ComponentLine(comps[k])]
        \o head \o <<EmptyLine>>

\* the body of the second loop of format_changes, for one course
ChangeBlock(code, data) ==
    LET name == Or(Get(data, "name"), Str(code))
        comps == Get(data, "components")[2]
        head == IF Truthy(Get(data, "letter_grade"))
                THEN <<HeaderLine(name),
                       LetterChangeLine(Get(Get(data, "letter_grade"), "old"),
                                        Get(Get(data, "letter_grade"), "new"),
                                        Or(Get(data, "success_score"), Str("")))>>
                ELSE <<HeaderLine(name)>>
    IN  head \o [k \in 1..Len(comps) |-> ComponentLine(comps[k])] \o <<EmptyLine>>

RECURSIVE ChangeBlocks(_, _)
ChangeBlocks(courses, i) ==
    IF i > Len(courses) THEN <<>>
    ELSE ChangeBlock(courses[i][1], courses[i][2]) \o ChangeBlocks(courses, i + 1)

\* format_changes without its first test: the title is written for any list
format_changes_NoEarlyReturn(changes_) ==
    Strip(<<ChangesTitle, EmptyLine>>
          \o ChangeBlocks(GroupChanges(changes_, 1, <<>>), 1))

\* format_changes; the title ends with a newline, so an empty line follows it
format_changes(changes_) ==
    IF changes_ = <<>> THEN <<>>
    ELSE Strip(<<ChangesTitle, EmptyLine>>
               \o ChangeBlocks(GroupChanges(changes_, 1, <<>>), 1))

\* the line of one stored component
FullComponentLine(comp) ==
    ScoreLine(GetD(comp, "name", Str("Sinav")),
              WeightText(Get(comp, "weight")),
              GetD(comp, "score", Dash))

\* the body of the loop of format_full_grades, for one course
FullBlock(code, data) ==
    LET name == GetD(data, "name", Str(code))
        letter == GetD(data, "letter_grade", Dash)
        score == GetD(data, "success_score", Dash)
        components == GetD(data, "components", List(<<>>))
        grade == IF letter # Dash \/ score # Dash
                 THEN <<GradeLine(letter, score)>>
                 ELSE <<>>
        comps == IF Truthy(components)
                 THEN [k \in 1..Len(IterItems(components)) |->
                          FullComponentLine(IterItems(components)[k])]
                 ELSE <<>>
    IN  <<HeaderLine(name)>> \o grade \o comps \o <<EmptyLine>>

RECURSIVE FullBlocks(_, _)
FullBlocks(grades, i) ==
    IF i > Len(grades[2]) THEN <<>>
    ELSE FullBlock(grades[2][i][1], grades[2][i][2]) \o FullBlocks(grades, i + 1)

\* format_full_grades
format_full_grades(grades) ==
    IF ~Truthy(grades) THEN <<NoGradesText>>
    ELSE Strip(<<FullTitle, EmptyLine>> \o FullBlocks(grades, 1))

\* the event lists handed to format_changes: any order, courses interleaved
MaxEvents == 3

RenderCourse(code) ==
    IF code = "C1" THEN Course("C1", Str("Calc"), Str("A"), Num(92), <<>>)
    ELSE Course(code, Str(""), Str("A"), None, <<>>)

RenderComponent(code) ==
    IF code = "C1" THEN Component(Str("Midterm"), Num(40), Num(75), None)
    ELSE Component(Str("Final"), Num(50), Num(85), None)

RenderOldComponent(code) ==
    IF code = "C1" THEN Midterm70
    ELSE Component(Str("Final"), Num(50), Num(80), None)

RenderUnweighted(code) ==
    IF code = "C1" THEN Component(Str("Quiz"), None, Num(50), None)
    ELSE Component(Str("Lab"), None, Num(90), None)

RenderEvents ==
    UNION {{LetterGradeEvent(code, RenderCourse(code), None, Str("A")),
            LetterGradeEvent(code, RenderCourse(code), Str("B"), Str("A")),
            NewScoreEvent(code, RenderCourse(code), RenderComponent(code)),
            NewScoreEvent(code, RenderCourse(code), RenderUnweighted(code)),
            ScoreChangeEvent(code, RenderCourse(code), RenderComponent(code),
                             RenderOldComponent(code))} : code \in Codes}

EventLists == UNION {[1..n -> RenderEvents] : n \in 0..MaxEvents}

\* the collections handed to format_full_grades: the stored snapshots, and
\* a document whose course has a name only
BareCollection == Dict(<< <<"C1", Dict(<< <<"name", Str("Calc")>> >>)>> >>)

FullCollections == Snapshots \cup {BareCollection}

InitRender ==
    /\ file = save(Dict(<<>>))
    /\ pc = "idle"
    /\ new_grades = None
    /\ old_grades = None
    /\ changes = <<>>
    /\ prev_call = None
    /\ text = <<>>
    /\ rows = <<>>
    /\ attempt = 0
    /\ max_attempts = 0
    /\ BotInit

\* text = format_changes(changes)
FormatChanges(evs) ==
    /\ pc = "idle"
    /\ pc' = "formatted"
    /\ changes' = evs
    /\ new_grades' = None
    /\ text' = format_changes(evs)
    /\ UNCHANGED <<file, old_grades, prev_call, botvars, rows, loginvars>>

\* text = format_full_grades(grades)
FormatFullGrades(grades) ==
    /\ pc = "idle"
    /\ pc' = "rendered"
    /\ new_grades' = grades
    /\ changes' = <<>>
    /\ text' = format_full_grades(grades)
    /\ UNCHANGED <<file, old_grades, prev_call, botvars, rows, loginvars>>

\* the caller hands the message to send_message / reply_text
Deliver ==
    /\ pc \in {"formatted", "rendered"}
    /\ pc' = "idle"
    /\ new_grades' = None
    /\ changes' = <<>>
    /\ text' = <<>>
    /\ UNCHANGED <<file, old_grades, prev_call, botvars, rows, loginvars>>

NextRender ==
    \/ \E evs \in EventLists : FormatChanges(evs)
    \/ \E grades \in FullCollections : FormatFullGrades(grades)
    \/ Deliver

SpecRender == InitRender /\ [][NextRender]_vars

(***************************************************************************)
(* OISScraper.parse_grades: the component rows of one course. A cell text  *)
(* is the sequence of its words, a trailing number a word of its own, so   *)
(* f"{base_name} {counter}" is Append(base_name, counter) and the label    *)
(* "Midterms 2" is the name made from "Midterms" and the counter 2         *)
(***************************************************************************)
MaxRows == 3

\* cells[1]: empty, a label, a label ending in a counter, another label
Labels == {<<>>, <<"Midterms">>, <<"Midterms", 2>>, <<"Quiz">>}

\* a row: the label, the weight parsed from cells[0], float(cells[2]) or
\* None when it is not a number
Rows ==
    {[label |-> l, weight |-> w, score |-> Num(70)] : l \in Labels, w \in Weights}
    \cup {[label |-> <<"Midterms">>, weight |-> Num(40), score |-> None]}

RowLists == UNION {[1..n -> Rows] : n \in 0..MaxRows}

\* the name tested once against the names in use, not until it is free
RECURSIVE FreshName_TestedOnce(_, _, _, _)
FreshName_TestedOnce(base_name, component_name, counter, existing_names) ==
    IF component_name \in existing_names /\ counter = 1
    THEN FreshName_TestedOnce(base_name, Append(base_name, counter + 1),
                              counter + 1, existing_names)
    ELSE component_name

\* while component_name in existing_names: counter += 1; component_name = ...
RECURSIVE FreshName(_, _, _, _)
FreshName(base_name, component_name, counter, existing_names) ==
    IF component_name \in existing_names
    THEN FreshName(base_name, Append(base_name, counter + 1),
                   counter + 1, existing_names)
    ELSE component_name

\* the loop over the rows of the course: a row without label or without a
\* numeric score is skipped, the others are appended under a free name
RECURSIVE ParseRows(_, _, _)
ParseRows(rs, i, components) ==
    IF i > Len(rs) THEN components
    ELSE IF rs[i].label # <<>> /\ rs[i].score # None
    THEN LET existing_names ==
                 {Get(components[k], "name")[2] : k \in 1..Len(components)}
             name == FreshName(rs[i].label, rs[i].label, 1, existing_names)
         IN  ParseRows(rs, i + 1,
                       Append(components,
                              Component(Str(name), rs[i].weight, rs[i].score,
                                        None)))
    ELSE ParseRows(rs, i + 1, components)

\* parse_grades on a page with the header of one course and these rows
parse_grades(rs) ==
    Dict(<< <<"C1", Course("C1", Str("Calc"), None, None,
                           ParseRows(rs, 1, <<>>))>> >>)

InitParse ==
    /\ file = save(Dict(<<>>))
    /\ pc = "idle"
    /\ new_grades = None
    /\ old_grades = None
    /\ changes = <<>>
    /\ prev_call = None
    /\ text = <<>>
    /\ rows = <<>>
    /\ attempt = 0
    /\ max_attempts = 0
    /\ BotInit

\* grades = parse_grades() in fetch_grades
ParseGrades(rs) ==
    /\ pc = "idle"
    /\ pc' = "parsed"
    /\ rows' = rs
    /\ new_grades' = parse_grades(rs)
    /\ UNCHANGED <<file, old_grades, changes, prev_call, text, botvars, loginvars>>

\* fetch_grades returns the snapshot; the page is fetched anew next time
ReturnGrades ==
    /\ pc = "parsed"
    /\ pc' = "idle"
    /\ rows' = <<>>
    /\ new_grades' = None
    /\ UNCHANGED <<file, old_grades, changes, prev_call, text, botvars, loginvars>>

NextParse ==
    \/ \E rs \in RowLists : ParseGrades(rs)
    \/ ReturnGrades

SpecParse == InitParse /\ [][NextParse]_vars

(***************************************************************************)
(* OISScraper.login, one action per stretch between the awaits whose       *)
(* outcome decides the path. `attempt` counts the iterations of the for    *)
(* loop that have begun (the loop index plus one)                          *)
(***************************************************************************)
MaxAttempts == 10    \* the default of max_attempts

\* how the body of the try ends: no CAPTCHA text, the CAPTCHA rejected by
\* the page, an exception, the login page without an error text, another
\* page
AttemptOutcomes == {"unsolved", "rejected", "exception", "on_login", "off_login"}

loginframe == <<file, new_grades, old_grades, changes, prev_call, text, rows,
                monitoring, monitor_task, check_count, last_check, exam_count,
                taskvars>>

InitLogin ==
    /\ file = save(Dict(<<>>))
    /\ pc = "idle"
    /\ new_grades = None
    /\ old_grades = None
    /\ changes = <<>>
    /\ prev_call = None
    /\ text = <<>>
    /\ rows = <<>>
    /\ attempt = 0
    /\ max_attempts = 0
    /\ BotInit

\* fetch_grades calls login(m) when not logged in; _ensure_browser launches
\* the browser when there is none, or raises
Login(m, ok) ==
    /\ pc = "idle"
    /\ ~logged_in
    /\ max_attempts' = m
    /\ attempt' = 0
    /\ IF browser
       THEN /\ ok
            /\ pc' = "loop"
            /\ UNCHANGED browser
       ELSE IF ok
       THEN /\ pc' = "loop"
            /\ browser' = TRUE
       ELSE /\ pc' = "raised"
            /\ UNCHANGED browser
    /\ UNCHANGED <<logged_in, loginframe>>

\* `for attempt in range(max_attempts)`: the loop ends and login returns
\* False, or new_context and new_page are awaited, outside the try
NewContext(ok) ==
    /\ pc = "loop"
    /\ IF attempt >= max_attempts
       THEN /\ ok
            /\ pc' = "returned_false"
            /\ UNCHANGED attempt
       ELSE /\ attempt' = attempt + 1
            /\ pc' = IF ok THEN "attempt" ELSE "raised"
    /\ UNCHANGED <<max_attempts, browser, logged_in, loginframe>>

\* the body of the try up to the return or to the close it awaits next
AttemptDone(o) ==
    /\ pc = "attempt"
    /\ pc' = CASE o = "off_login" -> "returned_true"
              [] o = "unsolved" -> "close_unsolved"
              [] o = "rejected" -> "close_rejected"
              [] OTHER -> "close"
    /\ logged_in' = IF o = "off_login" THEN TRUE ELSE logged_in
    /\ UNCHANGED <<attempt, max_attempts, browser, loginframe>>

\* `await context.close(); continue` inside the try: the next iteration, or
\* the exception is caught and the close after the try is awaited
InnerCloseDone(ok) ==
    /\ pc \in {"close_unsolved", "close_rejected"}
    /\ pc' = IF ok THEN "loop" ELSE "close"
    /\ UNCHANGED <<attempt, max_attempts, browser, logged_in, loginframe>>

\* `await context.close()` after the try: the next iteration, or login
\* raises
ContextCloseDone(ok) ==
    /\ pc = "close"
    /\ pc' = IF ok THEN "loop" ELSE "raised"
    /\ UNCHANGED <<attempt, max_attempts, browser, logged_in, loginframe>>

\* the caller has the value or the exception
LoginReturn ==
    /\ pc \in {"returned_true", "returned_false", "raised"}
    /\ pc' = "idle"
    /\ attempt' = 0
    /\ max_attempts' = 0
    /\ UNCHANGED <<browser, logged_in, loginframe>>

\* fetch_grades fails after the login: self.logged_in = False
SessionLost ==
    /\ pc = "idle"
    /\ logged_in
    /\ logged_in' = FALSE
    /\ UNCHANGED <<pc, attempt, max_attempts, browser, loginframe>>

\* OISScraper.close between two calls
ScraperClose ==
    /\ pc = "idle"
    /\ browser
    /\ browser' = FALSE
    /\ logged_in' = FALSE
    /\ UNCHANGED <<pc, attempt, max_attempts, loginframe>>

NextLogin ==
    \/ \E m \in 0..MaxAttempts : \E ok \in BOOLEAN : Login(m, ok)
    \/ \E ok \in BOOLEAN : NewContext(ok)
    \/ \E o \in AttemptOutcomes : AttemptDone(o)
    \/ \E ok \in BOOLEAN : InnerCloseDone(ok)
    \/ \E ok \in BOOLEAN : ContextCloseDone(ok)
    \/ LoginReturn
    \/ SessionLost
    \/ ScraperClose

SpecLogin == InitLogin /\ [][NextLogin]_vars

(***************************************************************************)
(* GradeCheckerBot: the handlers and the monitoring loop, one action per   *)
(* stretch of code between two awaits                                      *)
(***************************************************************************)
MaxChecks == 2      \* check_count is capped here
MaxExams == 1       \* entries of the exam list

SnapA == Dict(<< <<"C1", Course("C1", Str("Calc"), None, None, <<Midterm70>>)>> >>)
SnapB == Dict(<< <<"C1", Course("C1", Str("Calc"), Str("A"), Num(92),
                    <<Component(Str("Midterm"), Num(40), Num(75), None)>>)>> >>)
BotSnapshots == {SnapA, SnapB}

\* what `await self.scraper.fetch_grades()` ends with
GradeOutcomes ==
    {[kind |-> "none"], [kind |-> "raise"]}
    \cup {[kind |-> "grades", grades |-> S] : S \in BotSnapshots}

\* what `await self.scraper.fetch_exams()` ends with: len(exams), or -1 for
\* an exception
ExamOutcomes == -1..MaxExams

BotInitialFiles ==
    {NoFile, [exists |-> TRUE, text |-> << <<"[">>, <<"]">> >>], save(SnapA)}

InitBot ==
    /\ file \in {EnsureFileExists(f) : f \in BotInitialFiles}
    /\ pc = "idle"
    /\ new_grades = None
    /\ old_grades = None
    /\ changes = <<>>
    /\ prev_call = None
    /\ text = <<>>
    /\ rows = <<>>
    /\ attempt = 0
    /\ max_attempts = 0
    /\ BotInit

InFlight(t) == tpc[t] \in {"fetch_grades", "fetch_exams", "send_exam", "close"}

IsCancelled(t) == t \in MonTasks /\ cancelled[t]

FreeTasks == {t \in MonTasks : tpc[t] = "idle"}

\* asyncio.create_task: the new task takes the lowest free slot
NewTask == CHOOSE t \in FreeTasks : \A u \in FreeTasks : t <= u

\* the task enters _perform_check and suspends in fetch_grades
BeginCheck(t) ==
    /\ tpc' = [tpc EXCEPT ![t] = "fetch_grades"]
    /\ tres' = [tres EXCEPT ![t] = "pending"]
    /\ tchanges' = [tchanges EXCEPT ![t] = <<>>]
    /\ texams' = [texams EXCEPT ![t] = 0]

\* _monitoring_loop reaches `await asyncio.sleep(...)`: the iteration's
\* result is not read again
Sleep(t) ==
    /\ tpc' = [tpc EXCEPT ![t] = "sleep"]
    /\ tres' = [tres EXCEPT ![t] = "pending"]
    /\ tchanges' = [tchanges EXCEPT ![t] = <<>>]
    /\ texams' = [texams EXCEPT ![t] = 0]

\* the task's coroutine is over
EndTask(t) ==
    /\ tpc' = [tpc EXCEPT ![t] = "idle"]
    /\ tres' = [tres EXCEPT ![t] = "pending"]
    /\ tchanges' = [tchanges EXCEPT ![t] = <<>>]
    /\ texams' = [texams EXCEPT ![t] = 0]

\* start: /start
StartCommand ==
    /\ tpc[Dispatcher] = "idle"
    /\ IF monitoring
       THEN /\ tpc' = [tpc EXCEPT ![Dispatcher] = "reply"]
            /\ UNCHANGED monitoring
       ELSE /\ FreeTasks # {}
            /\ monitoring' = TRUE
            /\ tpc' = [tpc EXCEPT ![Dispatcher] = "start_reply"]
    /\ UNCHANGED <<file, callvars, monitor_task, check_count, last_check,
                   scrapervars, exam_count, tres, tchanges, texams, cancelled>>

\* start: the reply is sent and the loop task created, or the reply raises
StartReplyDone(ok) ==
    /\ tpc[Dispatcher] = "start_reply"
    /\ IF ok
       THEN /\ monitor_task' = NewTask
            /\ tpc' = [tpc EXCEPT ![Dispatcher] = "idle", ![NewTask] = "created"]
       ELSE /\ tpc' = [tpc EXCEPT ![Dispatcher] = "idle"]
            /\ UNCHANGED monitor_task
    /\ UNCHANGED <<file, callvars, monitoring, check_count, last_check,
                   scrapervars, exam_count, tres, tchanges, texams, cancelled>>

\* button_callback, data == "start"
StartButton ==
    /\ tpc[Dispatcher] = "idle"
    /\ IF monitoring
       THEN /\ tpc' = [tpc EXCEPT ![Dispatcher] = "reply"]
            /\ UNCHANGED <<monitoring, monitor_task>>
       ELSE /\ FreeTasks # {}
            /\ monitoring' = TRUE
            /\ monitor_task' = NewTask
            /\ tpc' = [tpc EXCEPT ![Dispatcher] = "reply", ![NewTask] = "created"]
    /\ UNCHANGED <<file, callvars, check_count, last_check, scrapervars,
                   exam_count, tres, tchanges, texams, cancelled>>

\* stop and button_callback, data == "stop", up to `await self.scraper.close()`
StopHandler ==
    /\ tpc[Dispatcher] = "idle"
    /\ IF ~monitoring
       THEN /\ tpc' = [tpc EXCEPT ![Dispatcher] = "reply"]
            /\ UNCHANGED <<monitoring, monitor_task, cancelled>>
       ELSE /\ monitoring' = FALSE
            /\ cancelled' = [t \in MonTasks |->
                                IF t = monitor_task THEN TRUE ELSE cancelled[t]]
            /\ monitor_task' = NoTask
            /\ tpc' = [tpc EXCEPT ![Dispatcher] = "stop_close"]
    /\ UNCHANGED <<file, callvars, check_count, last_check, scrapervars,
                   exam_count, tres, tchanges, texams>>

StopCommand == StopHandler

StopButton == StopHandler

\* OISScraper.close, awaited by stop
StopCloseDone ==
    /\ tpc[Dispatcher] = "stop_close"
    /\ browser' = FALSE
    /\ logged_in' = FALSE
    /\ tpc' = [tpc EXCEPT ![Dispatcher] = "reply"]
    /\ UNCHANGED <<file, callvars, monitoring, monitor_task, check_count, last_check,
                   exam_count, tres, tchanges, texams, cancelled>>

\* check and button_callback, data == "check": the notice is sent and the
\* handler enters _perform_check
CheckHandler ==
    /\ tpc[Dispatcher] = "idle"
    /\ BeginCheck(Dispatcher)
    /\ UNCHANGED <<file, callvars, monitoring, monitor_task, check_count, last_check,
                   scrapervars, exam_count, cancelled>>

CheckCommand == CheckHandler

CheckButton == CheckHandler

\* the last reply_text / edit_message_text of a handler, sent or failed; the
\* CancelledError of a task that stop cancelled is scheduled before the reply
\* is awaited, so the event loop delivers it before the reply completes
ReplyDone ==
    /\ tpc[Dispatcher] = "reply"
    /\ \A t \in MonTasks : ~cancelled[t]
    /\ EndTask(Dispatcher)
    /\ UNCHANGED <<file, callvars, monitoring, monitor_task, check_count, last_check,
                   scrapervars, exam_count, cancelled>>

\* _monitoring_loop: `while self.monitoring:`, at the first run of the task
\* and after each sleep
LoopTest(t) ==
    /\ t \in MonTasks
    /\ tpc[t] \in {"created", "sleep"}
    /\ ~cancelled[t]
    /\ IF monitoring THEN BeginCheck(t) ELSE EndTask(t)
    /\ UNCHANGED <<file, callvars, monitoring, monitor_task, check_count, last_check,
                   scrapervars, exam_count, cancelled>>

\* the check counted before the test for the no-result value
FetchGradesDone_CountFirst(t, o) ==
    /\ tpc[t] = "fetch_grades"
    /\ ~IsCancelled(t)
    /\ CASE o.kind = "raise" ->
              /\ tpc' = [tpc EXCEPT ![t] = "close"]
              /\ tres' = [tres EXCEPT ![t] = "raised"]
              /\ browser' = TRUE
              /\ UNCHANGED <<file, check_count, last_check, logged_in, tchanges>>
         [] o.kind = "none" ->
              /\ check_count < MaxChecks
              /\ tpc' = [tpc EXCEPT ![t] = "close"]
              /\ tres' = [tres EXCEPT ![t] = "none"]
              /\ browser' = TRUE
              /\ logged_in' = FALSE
              /\ last_check' = check_count + 1
              /\ check_count' = check_count + 1
              /\ UNCHANGED <<file, tchanges>>
         [] o.kind = "grades" ->
              /\ check_count < MaxChecks
              /\ browser' = TRUE
              /\ logged_in' = TRUE
              /\ last_check' = check_count + 1
              /\ check_count' = check_count + 1
              /\ IF DiffRaises(load(file), o.grades)
                 THEN /\ tpc' = [tpc EXCEPT ![t] = "close"]
                      /\ tres' = [tres EXCEPT ![t] = "raised"]
                      /\ UNCHANGED <<file, tchanges>>
                 ELSE /\ tpc' = [tpc EXCEPT ![t] = "fetch_exams"]
                      /\ tres' = tres
                      /\ tchanges' = [tchanges EXCEPT
                                         ![t] = DiffEvents(load(file), o.grades, 1)]
                      /\ file' = save(o.grades)
    /\ UNCHANGED <<callvars, monitoring, monitor_task, exam_count,
                   texams, cancelled>>

\* _perform_check from the end of fetch_grades to the next await
FetchGradesDone(t, o) ==
    /\ tpc[t] = "fetch_grades"
    /\ ~IsCancelled(t)
    /\ CASE o.kind = "raise" ->
              /\ tpc' = [tpc EXCEPT ![t] = "close"]
              /\ tres' = [tres EXCEPT ![t] = "raised"]
              /\ browser' = TRUE
              /\ UNCHANGED <<file, check_count, last_check, logged_in, tchanges>>
         [] o.kind = "none" ->
              /\ tpc' = [tpc EXCEPT ![t] = "close"]
              /\ tres' = [tres EXCEPT ![t] = "none"]
              /\ browser' = TRUE
              /\ logged_in' = FALSE
              /\ UNCHANGED <<file, check_count, last_check, tchanges>>
         [] o.kind = "grades" ->
              /\ check_count < MaxChecks
              /\ browser' = TRUE
              /\ logged_in' = TRUE
              /\ last_check' = check_count + 1
              /\ check_count' = check_count + 1
              /\ IF DiffRaises(load(file), o.grades)
                 THEN /\ tpc' = [tpc EXCEPT ![t] = "close"]
                      /\ tres' = [tres EXCEPT ![t] = "raised"]
                      /\ UNCHANGED <<file, tchanges>>
                 ELSE /\ tpc' = [tpc EXCEPT ![t] = "fetch_exams"]
                      /\ tres' = tres
                      /\ tchanges' = [tchanges EXCEPT
                                         ![t] = DiffEvents(load(file), o.grades, 1)]
                      /\ file' = save(o.grades)
    /\ UNCHANGED <<callvars, monitoring, monitor_task, exam_count,
                   texams, cancelled>>

\* the notification also for a count that did not grow
FetchExamsDone_NotStrict(t, n) ==
    /\ tpc[t] = "fetch_exams"
    /\ ~IsCancelled(t)
    /\ IF n < 0
       THEN /\ tpc' = [tpc EXCEPT ![t] = "close"]
            /\ tres' = [tres EXCEPT ![t] = "raised"]
            /\ UNCHANGED <<exam_count, texams>>
       ELSE IF n > 0 /\ n >= exam_count
       THEN /\ tpc' = [tpc EXCEPT ![t] = "send_exam"]
            /\ texams' = [texams EXCEPT ![t] = n]
            /\ UNCHANGED <<exam_count, tres>>
       ELSE /\ tpc' = [tpc EXCEPT ![t] = "close"]
            /\ tres' = [tres EXCEPT ![t] = "ok"]
            /\ texams' = [texams EXCEPT ![t] = n]
            /\ exam_count' = IF n > 0 THEN n ELSE exam_count
    /\ UNCHANGED <<file, callvars, monitoring, monitor_task, check_count, last_check,
                   scrapervars, tchanges, cancelled>>

\* _perform_check from the end of fetch_exams to the next await
FetchExamsDone(t, n) ==
    /\ tpc[t] = "fetch_exams"
    /\ ~IsCancelled(t)
    /\ IF n < 0
       THEN /\ tpc' = [tpc EXCEPT ![t] = "close"]
            /\ tres' = [tres EXCEPT ![t] = "raised"]
            /\ UNCHANGED <<exam_count, texams>>
       ELSE IF n > 0 /\ n > exam_count
       THEN /\ tpc' = [tpc EXCEPT ![t] = "send_exam"]
            /\ texams' = [texams EXCEPT ![t] = n]
            /\ UNCHANGED <<exam_count, tres>>
       ELSE /\ tpc' = [tpc EXCEPT ![t] = "close"]
            /\ tres' = [tres EXCEPT ![t] = "ok"]
            /\ texams' = [texams EXCEPT ![t] = n]
            /\ exam_count' = IF n > 0 THEN n ELSE exam_count
    /\ UNCHANGED <<file, callvars, monitoring, monitor_task, check_count, last_check,
                   scrapervars, tchanges, cancelled>>

\* _perform_check from the end of the exam send_message to the next await
SendExamDone(t, ok) ==
    /\ tpc[t] = "send_exam"
    /\ ~IsCancelled(t)
    /\ tpc' = [tpc EXCEPT ![t] = "close"]
    /\ IF ok
       THEN /\ exam_count' = texams[t]
            /\ tres' = [tres EXCEPT ![t] = "ok"]
       ELSE /\ tres' = [tres EXCEPT ![t] = "raised"]
            /\ UNCHANGED exam_count
    /\ UNCHANGED <<file, callvars, monitoring, monitor_task, check_count, last_check,
                   scrapervars, tchanges, texams, cancelled>>

\* the loop without its `except Exception`: an exception of the cycle ends
\* the task
CloseDone_ErrorEndsLoop(t) ==
    /\ tpc[t] = "close"
    /\ ~IsCancelled(t)
    /\ browser' = FALSE
    /\ logged_in' = FALSE
    /\ IF t # Dispatcher /\ tres[t] \in {"cancelled", "raised"}
       THEN EndTask(t)
       ELSE IF t = Dispatcher \/ (tres[t] = "ok" /\ tchanges[t] # <<>>)
       THEN /\ tpc' = [tpc EXCEPT ![t] =
                          IF t = Dispatcher THEN "reply" ELSE "send_changes"]
            /\ UNCHANGED <<tres, tchanges, texams>>
       ELSE Sleep(t)
    /\ UNCHANGED <<file, callvars, monitoring, monitor_task, check_count, last_check,
                   exam_count, cancelled>>

\* the loop without its `if changes:`: every cycle with a result notifies
CloseDone_NotifiesAlways(t) ==
    /\ tpc[t] = "close"
    /\ ~IsCancelled(t)
    /\ browser' = FALSE
    /\ logged_in' = FALSE
    /\ IF t # Dispatcher /\ tres[t] = "cancelled"
       THEN EndTask(t)
       ELSE IF t = Dispatcher \/ tres[t] = "ok"
       THEN /\ tpc' = [tpc EXCEPT ![t] =
                          IF t = Dispatcher THEN "reply" ELSE "send_changes"]
            /\ UNCHANGED <<tres, tchanges, texams>>
       ELSE Sleep(t)
    /\ UNCHANGED <<file, callvars, monitoring, monitor_task, check_count, last_check,
                   exam_count, cancelled>>

\* the `finally: await self.scraper.close()` of _perform_check, and its
\* caller up to the caller's next await
CloseDone(t) ==
    /\ tpc[t] = "close"
    /\ ~IsCancelled(t)
    /\ browser' = FALSE
    /\ logged_in' = FALSE
    /\ IF t # Dispatcher /\ tres[t] = "cancelled"
       THEN EndTask(t)
       ELSE IF t = Dispatcher \/ (tres[t] = "ok" /\ tchanges[t] # <<>>)
       THEN /\ tpc' = [tpc EXCEPT ![t] =
                          IF t = Dispatcher THEN "reply" ELSE "send_changes"]
            /\ UNCHANGED <<tres, tchanges, texams>>
       ELSE Sleep(t)
    /\ UNCHANGED <<file, callvars, monitoring, monitor_task, check_count, last_check,
                   exam_count, cancelled>>

\* _monitoring_loop: the change notification is sent, or send_message raises
\* and the error is logged
SendChangesDone(t) ==
    /\ t \in MonTasks
    /\ tpc[t] = "send_changes"
    /\ ~cancelled[t]
    /\ Sleep(t)
    /\ UNCHANGED <<file, callvars, monitoring, monitor_task, check_count, last_check,
                   scrapervars, exam_count, cancelled>>

\* CancelledError is raised in the task at the await it is suspended at. In
\* the close of the finally that is `await self.browser.close()`, and the
\* two assignments after it are not reached; with no browser, close() runs
\* through and the error is raised at the await after it
Cancelled(t) ==
    /\ t \in MonTasks
    /\ cancelled[t]
    /\ cancelled' = [cancelled EXCEPT ![t] = FALSE]
    /\ IF tpc[t] \in {"fetch_grades", "fetch_exams", "send_exam"}
       THEN /\ tpc' = [tpc EXCEPT ![t] = "close"]
            /\ tres' = [tres EXCEPT ![t] = "cancelled"]
            /\ tchanges' = [tchanges EXCEPT ![t] = <<>>]
            /\ texams' = [texams EXCEPT ![t] = 0]
       ELSE EndTask(t)
    /\ logged_in' = IF tpc[t] = "close" /\ ~browser THEN FALSE ELSE logged_in
    /\ UNCHANGED <<file, callvars, monitoring, monitor_task, check_count, last_check,
                   browser, exam_count>>

\* the loop tasks that stop has let go of and that are still running
Stopped == {t \in MonTasks : tpc[t] # "idle" /\ t # monitor_task /\ ~cancelled[t]}

MaxStopped == 1     \* such tasks at a time

\* CancelledError is raised inside fetch_grades while its error handler
\* awaits the screenshot or the page content: the bare `except: pass` there
\* takes it, fetch_grades returns None and the task goes on
CancelSwallowed(t) ==
    /\ t \in MonTasks
    /\ cancelled[t]
    /\ tpc[t] = "fetch_grades"
    /\ Cardinality(Stopped) < MaxStopped
    /\ cancelled' = [cancelled EXCEPT ![t] = FALSE]
    /\ tpc' = [tpc EXCEPT ![t] = "close"]
    /\ tres' = [tres EXCEPT ![t] = "none"]
    /\ browser' = TRUE
    /\ logged_in' = FALSE
    /\ UNCHANGED <<file, callvars, monitoring, monitor_task, check_count, last_check,
                   exam_count, tchanges, texams>>

NextBot ==
    \/ StartCommand
    \/ \E ok \in BOOLEAN : StartReplyDone(ok)
    \/ StartButton
    \/ StopCommand
    \/ StopButton
    \/ StopCloseDone
    \/ CheckCommand
    \/ CheckButton
    \/ ReplyDone
    \/ \E t \in MonTasks : LoopTest(t)
    \/ \E t \in Tasks : \E o \in GradeOutcomes : FetchGradesDone(t, o)
    \/ \E t \in Tasks : \E n \in ExamOutcomes : FetchExamsDone(t, n)
    \/ \E t \in Tasks : \E ok \in BOOLEAN : SendExamDone(t, ok)
    \/ \E t \in Tasks : CloseDone(t)
    \/ \E t \in MonTasks : SendChangesDone(t)
    \/ \E t \in MonTasks : Cancelled(t)

SpecBot == InitBot /\ [][NextBot]_vars

\* the bot driven by start and stop only, commands and buttons, with every
\* way a cancellation can end
NextStartStop ==
    \/ StartCommand
    \/ \E ok \in BOOLEAN : StartReplyDone(ok)
    \/ StartButton
    \/ StopCommand
    \/ StopButton
    \/ StopCloseDone
    \/ ReplyDone
    \/ \E t \in MonTasks : LoopTest(t)
    \/ \E t \in MonTasks : \E o \in GradeOutcomes : FetchGradesDone(t, o)
    \/ \E t \in MonTasks : \E n \in ExamOutcomes : FetchExamsDone(t, n)
    \/ \E t \in MonTasks : \E ok \in BOOLEAN : SendExamDone(t, ok)
    \/ \E t \in MonTasks : CloseDone(t)
    \/ \E t \in MonTasks : SendChangesDone(t)
    \/ \E t \in MonTasks : Cancelled(t)
    \/ \E t \in MonTasks : CancelSwallowed(t)

SpecStartStop == InitBot /\ [][NextStartStop]_vars

\* every await of a monitoring task ends, with a value or an exception, and
\* asyncio.sleep(CHECK_INTERVAL) ends
LoopFairness ==
    \A t \in MonTasks :
        /\ WF_vars(CloseDone(t))
        /\ WF_vars(SendChangesDone(t))
        /\ WF_vars(LoopTest(t))

SpecBotLive == InitBot /\ [][NextBot]_vars /\ LoopFairness

(***************************************************************************)
(* Properties of the diff/update cycle                                     *)
(***************************************************************************)
Courses(grades) == {grades[2][k] : k \in 1..Len(grades[2])}

\* the stored course of that code as the call saw it, {} when there is none
StoredCourse(code) ==
    IF IsDict(old_grades) THEN GetD(old_grades, code, Dict(<<>>)) ELSE Dict(<<>>)

StoredComponents(code) == IterItems(GetD(StoredCourse(code), "components", List(<<>>)))

EventsAt(code, types) ==
    {i \in 1..Len(changes) :
        changes[i].course_code = code /\ changes[i].type \in types}

ComponentEventsAt(code, component) ==
    {i \in EventsAt(code, {"new_score", "score_change"}) :
        /\ changes[i].component = Get(component, "name")
        /\ changes[i].weight = Get(component, "weight")}

\* C1: a second call with the snapshot of the call before it returns no event
C1_Idempotent ==
    (pc = "returned" /\ prev_call = new_grades) => changes = <<>>

C1_Witness ==
    /\ pc = "returned"
    /\ prev_call = new_grades
    /\ \E c \in Courses(new_grades) :
          /\ Get(c[2], "letter_grade") # None
          /\ Len(Get(c[2], "components")[2]) = 2

\* C2: after the call returns, the document holds exactly the argument
C2_PersistsArgument ==
    pc = "returned" => (file.exists /\ load(file) = new_grades)

C2_Witness ==
    /\ pc = "returned"
    /\ changes = <<>>
    /\ IsDict(old_grades)
    /\ Len(old_grades[2]) > 0
    /\ old_grades # new_grades
    /\ load(file) = new_grades

\* C5: every step that changes the document leaves a complete document
C5_SaveAtomic ==
    [][file' # file => (file'.exists /\ JsonLoad(file'.text).ok)]_vars

\* C6: a call never faults on the stored document, and load() returned a
\* mapping of courses whatever the document held
C6_LoadNeverFails ==
    pc \in {"returned", "raised"} =>
        /\ pc # "raised"
        /\ IsDict(old_grades)

\* C7: every event is about a course and a component of the new snapshot;
\* what only the stored state had is gone from the document
C7_OneDirectional ==
    pc = "returned" =>
        /\ \A i \in 1..Len(changes) :
              /\ HasKey(new_grades, changes[i].course_code)
              /\ changes[i].type # "letter_grade" =>
                    \E j \in 1..Len(Get(Get(new_grades, changes[i].course_code),
                                        "components")[2]) :
                        LET c == Get(Get(new_grades, changes[i].course_code),
                                     "components")[2][j]
                        IN  /\ changes[i].component = Get(c, "name")
                            /\ changes[i].weight = Get(c, "weight")
        /\ IsDict(old_grades) =>
              \A k \in 1..Len(old_grades[2]) :
                  LET code == old_grades[2][k][1]
                  IN  /\ ~HasKey(new_grades, code) => ~HasKey(load(file), code)
                      /\ HasKey(new_grades, code) =>
                            Get(load(file), code) = Get(new_grades, code)

C7_Witness ==
    /\ pc = "returned"
    /\ IsDict(old_grades)
    /\ \E k \in 1..Len(old_grades[2]) : ~HasKey(new_grades, old_grades[2][k][1])
    /\ \E c \in Courses(new_grades) :
          /\ HasKey(old_grades, c[1])
          /\ Len(StoredComponents(c[1])) > Len(Get(c[2], "components")[2])
    /\ changes = <<>>

\* C8: a letter-grade event for a course exactly when its new letter grade is
\* set and differs from the stored one; one at most, with the new fields
C8_LetterGrade ==
    pc = "returned" =>
        \A c \in Courses(new_grades) :
            LET new_letter == Get(c[2], "letter_grade")
                old_letter == Get(StoredCourse(c[1]), "letter_grade")
                at == EventsAt(c[1], {"letter_grade"})
            IN  IF new_letter # None /\ new_letter # old_letter
                THEN /\ Cardinality(at) = 1
                     /\ \A i \in at :
                           changes[i] = [type |-> "letter_grade",
                                         course_code |-> c[1],
                                         course_name |-> Get(c[2], "name"),
                                         old_value |-> old_letter,
                                         new_value |-> new_letter,
                                         success_score |-> Get(c[2], "success_score")]
                ELSE at = {}

C8_Witness ==
    /\ pc = "returned"
    /\ \E c \in Courses(new_grades) :
          /\ Get(StoredCourse(c[1]), "letter_grade") = Str("A")
          /\ Get(c[2], "letter_grade") = Str("B")
          /\ Get(StoredCourse(c[1]), "success_score") # Get(c[2], "success_score")
          /\ Get(StoredCourse(c[1]), "name") # Get(c[2], "name")
          /\ EventsAt(c[1], {"letter_grade"}) # {}

\* the stored components of the course with the name and weight of `component`
StoredWithKey(code, component) ==
    {j \in 1..Len(StoredComponents(code)) :
        /\ Get(StoredComponents(code)[j], "name") = Get(component, "name")
        /\ Get(StoredComponents(code)[j], "weight") = Get(component, "weight")}

\* C9: a component whose (name, weight) no stored component of the course
\* has gets exactly one new-score event and no score-change event
C9_NewScore ==
    pc = "returned" =>
        \A c \in Courses(new_grades) :
            \A j \in 1..Len(Get(c[2], "components")[2]) :
                LET component == Get(c[2], "components")[2][j]
                    at == ComponentEventsAt(c[1], component)
                IN  StoredWithKey(c[1], component) = {} =>
                        /\ Cardinality(at) = 1
                        /\ \A i \in at :
                              changes[i] = [type |-> "new_score",
                                            course_code |-> c[1],
                                            course_name |-> Get(c[2], "name"),
                                            component |-> Get(component, "name"),
                                            weight |-> Get(component, "weight"),
                                            score |-> Get(component, "score"),
                                            date |-> Get(component, "date")]

\* a stored component with the same name, score and date but another weight
C9_Witness ==
    /\ pc = "returned"
    /\ \E c \in Courses(new_grades) :
          \E j \in 1..Len(Get(c[2], "components")[2]) :
              LET component == Get(c[2], "components")[2][j]
              IN  /\ StoredWithKey(c[1], component) = {}
                  /\ \E k \in 1..Len(StoredComponents(c[1])) :
                        LET o == StoredComponents(c[1])[k]
                        IN  /\ Get(o, "name") = Get(component, "name")
                            /\ Get(o, "score") = Get(component, "score")
                            /\ Get(o, "date") = Get(component, "date")
                            /\ Get(o, "weight") # Get(component, "weight")
                  /\ ComponentEventsAt(c[1], component) # {}

\* the last stored component of the key (where the key occurs once, the one)
LastStored(code, component) ==
    StoredComponents(code)[CHOOSE j \in StoredWithKey(code, component) :
                              \A k \in StoredWithKey(code, component) : k <= j]

\* C10: a component whose key is stored too gets exactly one score-change
\* event (old = stored score, new = new score) when the scores differ, and
\* no event when they are equal
C10_ScoreChange ==
    pc = "returned" =>
        \A c \in Courses(new_grades) :
            \A j \in 1..Len(Get(c[2], "components")[2]) :
                LET component == Get(c[2], "components")[2][j]
                    at == ComponentEventsAt(c[1], component)
                IN  StoredWithKey(c[1], component) # {} =>
                        LET stored == LastStored(c[1], component)
                        IN  IF Get(stored, "score") # Get(component, "score")
                            THEN /\ Cardinality(at) = 1
                                 /\ \A i \in at :
                                       changes[i] =
                                           [type |-> "score_change",
                                            course_code |-> c[1],
                                            course_name |-> Get(c[2], "name"),
                                            component |-> Get(component, "name"),
                                            weight |-> Get(component, "weight"),
                                            old_score |-> Get(stored, "score"),
                                            new_score |-> Get(component, "score"),
                                            date |-> Get(component, "date")]
                            ELSE at = {}

\* a stored score of 70 against a new score of 75
C10_Witness ==
    /\ pc = "returned"
    /\ \E i \in 1..Len(changes) :
          /\ changes[i].type = "score_change"
          /\ changes[i].old_score = Num(70)
          /\ changes[i].new_score = Num(75)

\* a null stored score against a new value
C10_WitnessNull ==
    /\ pc = "returned"
    /\ \E i \in 1..Len(changes) :
          /\ changes[i].type = "score_change"
          /\ changes[i].old_score = None

\* the position of the event's course in the new snapshot
EventCourseIndex(e) ==
    CHOOSE i \in 1..Len(new_grades[2]) : new_grades[2][i][1] = e.course_code

\* 0 for the letter-grade event, else the position of the event's component
\* in the course's component list of the new snapshot
EventRank(e) ==
    IF e.type = "letter_grade" THEN 0
    ELSE LET comps == Get(new_grades[2][EventCourseIndex(e)][2], "components")[2]
         IN  CHOOSE k \in 1..Len(comps) :
                 /\ Get(comps[k], "name") = e.component
                 /\ Get(comps[k], "weight") = e.weight

\* C11: the events come in the order of the new snapshot: course by course
\* in the order of its courses, and within a course the letter-grade event
\* first, then the component events in the order of its component list
C11_EventOrder ==
    pc = "returned" =>
        \A i, j \in 1..Len(changes) :
            i < j =>
                \/ EventCourseIndex(changes[i]) < EventCourseIndex(changes[j])
                \/ /\ EventCourseIndex(changes[i]) = EventCourseIndex(changes[j])
                   /\ EventRank(changes[i]) < EventRank(changes[j])

\* two courses with a letter-grade event and a component event each
C11_Witness ==
    /\ pc = "returned"
    /\ Len(new_grades[2]) = 2
    /\ \A c \in Courses(new_grades) :
          /\ EventsAt(c[1], {"letter_grade"}) # {}
          /\ EventsAt(c[1], {"new_score", "score_change"}) # {}

\* two component events of one course after its letter-grade event
C11_WitnessComponents ==
    /\ pc = "returned"
    /\ \E c \in Courses(new_grades) :
          /\ EventsAt(c[1], {"letter_grade"}) # {}
          /\ Cardinality(EventsAt(c[1], {"new_score", "score_change"})) = 2

\* C12: a course that the stored state does not have gets one letter-grade
\* event with a null old value if its letter grade is set, none otherwise,
\* one new-score event per component and no score-change event
C12_NewCourse ==
    pc = "returned" =>
        \A c \in Courses(new_grades) :
            ~HasKey(old_grades, c[1]) =>
                LET comps == Get(c[2], "components")[2]
                    letters == EventsAt(c[1], {"letter_grade"})
                IN  /\ IF Get(c[2], "letter_grade") # None
                       THEN /\ Cardinality(letters) = 1
                            /\ \A i \in letters :
                                  /\ changes[i].old_value = None
                                  /\ changes[i].new_value = Get(c[2], "letter_grade")
                       ELSE letters = {}
                    /\ EventsAt(c[1], {"score_change"}) = {}
                    /\ Cardinality(EventsAt(c[1], {"new_score"})) = Len(comps)
                    /\ \A j \in 1..Len(comps) :
                          Cardinality({i \in EventsAt(c[1], {"new_score"}) :
                              /\ changes[i].component = Get(comps[j], "name")
                              /\ changes[i].weight = Get(comps[j], "weight")
                              /\ changes[i].score = Get(comps[j], "score")}) = 1

\* a graded course with two components, new to a stored state that holds
\* another course
C12_Witness ==
    /\ pc = "returned"
    /\ old_grades # Dict(<<>>)
    /\ \E c \in Courses(new_grades) :
          /\ ~HasKey(old_grades, c[1])
          /\ Get(c[2], "letter_grade") # None
          /\ Len(Get(c[2], "components")[2]) = 2

\* a course new to an empty stored state
C12_WitnessEmpty ==
    /\ pc = "returned"
    /\ old_grades = Dict(<<>>)
    /\ \E c \in Courses(new_grades) :
          /\ Get(c[2], "letter_grade") # None
          /\ Len(Get(c[2], "components")[2]) > 0

\* C13: the call leaves the object passed in as it was, and changes nothing
\* but the document
C13_ArgumentNotMutated ==
    [][pc = "called" =>
          /\ new_grades' = new_grades
          /\ UNCHANGED <<prev_call, monitoring, monitor_task, check_count,
                         last_check, browser, logged_in, exam_count>>]_vars

\* a returned call that found changes in a course with two components and
\* replaced another document
C13_Witness ==
    /\ pc = "returned"
    /\ new_grades \in Snapshots
    /\ changes # <<>>
    /\ old_grades # Dict(<<>>)
    /\ file = save(new_grades)
    /\ \E c \in Courses(new_grades) : Len(Get(c[2], "components")[2]) = 2

\* C14: load() after save(X) returns X
C14_RoundTrip ==
    pc = "loaded" => old_grades = new_grades

\* a collection with two courses, null fields and a component, loaded back
C14_Witness ==
    /\ pc = "loaded"
    /\ old_grades \in Snapshots
    /\ \E c \in Courses(old_grades) : Get(c[2], "letter_grade") = None
    /\ \E c \in Courses(old_grades) : Get(c[2], "components") # List(<<>>)
    /\ Cardinality(Courses(old_grades)) = 2

(***************************************************************************)
(* Properties of the check cycle                                           *)
(***************************************************************************)
\* C3: the steps of a check cycle whose fetch_grades returned None leave the
\* document, check_count and last_check as they were
C3_NoResultKeepsState ==
    [][\A t \in Tasks :
          (tpc'[t] # tpc[t] /\ (tres[t] = "none" \/ tres'[t] = "none"))
              => UNCHANGED <<file, check_count, last_check>>]_vars

\* a no-result cycle past its early return, after a cycle that stored a
\* snapshot
C3_Witness ==
    \E t \in Tasks :
        /\ tres[t] = "none"
        /\ tpc[t] \in {"reply", "close"}
        /\ check_count > 0
        /\ load(file) \in BotSnapshots

\* C15: the step that ends a successful fetch_exams goes on to send the exam
\* notification exactly when the fetched list is longer than exam_count
C15_ExamNotification ==
    [][\A t \in Tasks :
          (/\ tpc[t] = "fetch_exams"
           /\ tpc'[t] \in {"send_exam", "close"}
           /\ tres'[t] \notin {"raised", "cancelled"})
              => (tpc'[t] = "send_exam" <=> texams'[t] > exam_count)]_vars

\* a second cycle, after one that counted an exam, that fetched as many
\* exams as counted and went on without a notification
C15_Witness ==
    \E t \in Tasks :
        /\ tpc[t] = "close"
        /\ tres[t] = "ok"
        /\ check_count = 2
        /\ last_check = 2
        /\ texams[t] = exam_count
        /\ exam_count > 0

\* a cycle that fetched more exams than counted, sending the notification
C15_WitnessSend ==
    \E t \in Tasks : tpc[t] = "send_exam" /\ texams[t] > exam_count

\* C16: the step that completes the exam part of a cycle leaves exam_count
\* equal to the length of the list fetch_exams returned
C16_ExamCountIsFetched ==
    [][\A t \in Tasks :
          (/\ tpc[t] \in {"fetch_exams", "send_exam"}
           /\ tpc'[t] = "close"
           /\ tres'[t] = "ok")
              => exam_count' = texams'[t]]_vars

\* C4: at most one task is between the start of _perform_check and the end
\* of its scraper.close()
C4_OneCheckInFlight ==
    Cardinality({t \in Tasks : InFlight(t)}) <= 1

\* C17: a monitoring task whose cycle failed (no result, or an exception of
\* the diff, the exam fetch or a send) starts another cycle, unless
\* monitoring is switched off
C17_LoopSurvivesFailure ==
    \A t \in MonTasks :
        ((tpc[t] = "close" /\ tres[t] \in {"none", "raised"})
            \/ tpc[t] = "send_changes")
        ~> (tpc[t] = "fetch_grades" \/ ~monitoring)

\* the cycle of the running loop failed after its grades were fetched
C17_Witness ==
    \E t \in MonTasks :
        /\ monitoring
        /\ monitor_task = t
        /\ ~cancelled[t]
        /\ tpc[t] = "close"
        /\ tres[t] = "raised"
        /\ check_count > 0

\* the cycle of the running loop failed at fetch_grades
C17_WitnessScrape ==
    \E t \in MonTasks :
        /\ monitoring
        /\ monitor_task = t
        /\ tpc[t] = "close"
        /\ tres[t] = "none"

(***************************************************************************)
(* Properties of the rendered messages                                     *)
(***************************************************************************)
HeaderAt(lines) == {i \in 1..Len(lines) : lines[i][1] = "header"}

NthHeader(lines, k) ==
    CHOOSE i \in HeaderAt(lines) : Cardinality({j \in HeaderAt(lines) : j <= i}) = k

\* the k-th block: from its header line to the line before the next header
Block(lines, k) ==
    SubSeq(lines, NthHeader(lines, k),
           IF k < Cardinality(HeaderAt(lines)) THEN NthHeader(lines, k + 1) - 1
           ELSE Len(lines))

CodesSeen(evs) == {evs[i].course_code : i \in 1..Len(evs)}

FirstAt(evs, code) ==
    CHOOSE i \in 1..Len(evs) :
        /\ evs[i].course_code = code
        /\ \A j \in 1..(i - 1) : evs[j].course_code # code

\* the k-th course code in the order of first occurrence
NthCode(evs, k) ==
    CHOOSE c \in CodesSeen(evs) :
        Cardinality({d \in CodesSeen(evs) : FirstAt(evs, d) <= FirstAt(evs, c)}) = k

EventsOf(evs, code, types) ==
    SelectSeq(evs, LAMBDA e : e.course_code = code /\ e.type \in types)

\* the line shows the event
Shows(line, e) ==
    CASE e.type = "letter_grade" ->
            /\ line[1] = "grade_change"
            /\ line[3] = e.new_value
      [] e.type = "new_score" ->
            /\ line[1] = "score"
            /\ line[2] = e.component
            /\ line[4] = e.score
      [] e.type = "score_change" ->
            /\ line[1] = "score_change"
            /\ line[2] = e.component
            /\ line[3] = e.old_score
            /\ line[4] = e.new_score

\* C18: one block per course code of the list, in the order the codes first
\* occur, each headed by its course and holding a line for every event of
\* its course and no other line
C18_OneBlockPerCourse ==
    (pc = "formatted" /\ changes # <<>>) =>
        LET n == Cardinality(CodesSeen(changes))
        IN  /\ Cardinality(HeaderAt(text)) = n
            /\ \A k \in 1..n :
                  LET code == NthCode(changes, k)
                      block == Block(text, k)
                      first == changes[FirstAt(changes, code)]
                      lettered == EventsOf(changes, code, {"letter_grade"}) # <<>>
                  IN  /\ block[1] = <<"header", IF first.course_name = Str("")
                                                THEN Str(code)
                                                ELSE first.course_name>>
                      /\ \A i \in 1..Len(changes) :
                            changes[i].course_code = code =>
                                \E j \in 2..Len(block) : Shows(block[j], changes[i])
                      /\ Len(SelectSeq(block, LAMBDA l : l # EmptyLine))
                            = 1 + (IF lettered THEN 1 ELSE 0)
                                + Len(EventsOf(changes, code,
                                               {"new_score", "score_change"}))

\* events of one course around an event of another: two blocks
C18_Witness ==
    /\ pc = "formatted"
    /\ Len(changes) = 3
    /\ changes[1].course_code = changes[3].course_code
    /\ changes[2].course_code # changes[1].course_code
    /\ changes[1].type # "letter_grade"
    /\ changes[3].type = "letter_grade"
    /\ Cardinality(HeaderAt(text)) = 2

\* the line format_changes is to write for a component event
ExpectedComponentLine(e) ==
    IF e.type = "new_score"
    THEN <<"score", e.component,
           IF e.weight = None THEN Str("") ELSE <<"%", e.weight>>, e.score>>
    ELSE <<"score_change", e.component, e.old_score, e.new_score>>

\* C19: a block is its header line, the letter-grade line exactly when the
\* course has a letter-grade event (the placeholder for a null old value),
\* then one line per component event of the course in the order of the
\* events, each in the form of its type
C19_BlockLayout ==
    (pc = "formatted" /\ changes # <<>>) =>
        /\ SubSeq(text, 1, 2) = <<ChangesTitle, EmptyLine>>
        /\ \A k \in 1..Cardinality(CodesSeen(changes)) :
              LET code == NthCode(changes, k)
                  block == Block(text, k)
                  letters == EventsOf(changes, code, {"letter_grade"})
                  comps == EventsOf(changes, code, {"new_score", "score_change"})
                  last == letters[Len(letters)]
                  grade == IF letters = <<>> THEN <<>>
                           ELSE << <<"grade_change",
                                     IF last.old_value = None THEN Dash
                                     ELSE last.old_value,
                                     last.new_value,
                                     IF last.success_score = None THEN Str("")
                                     ELSE last.success_score>> >>
              IN  /\ block[1][1] = "header"
                  /\ Tail(block) =
                        grade \o [i \in 1..Len(comps) |-> ExpectedComponentLine(comps[i])]
                        \o (IF k < Cardinality(CodesSeen(changes))
                            THEN <<EmptyLine>> ELSE <<>>)

\* a course with a first letter grade, a new score and a changed score
C19_Witness ==
    /\ pc = "formatted"
    /\ Len(changes) = 3
    /\ Cardinality(CodesSeen(changes)) = 1
    /\ \E i \in 1..3 : changes[i].type = "letter_grade" /\ changes[i].old_value = None
    /\ \E i \in 1..3 : changes[i].type = "new_score"
    /\ \E i \in 1..3 : changes[i].type = "score_change"
    /\ Len(text) = 6

\* C20: format_full_grades writes, for every course, a header line, a grade
\* line exactly when the letter grade or the success score is not null, and
\* one line per stored component in stored order
C20_FullLayout ==
    (pc = "rendered" /\ new_grades \in Snapshots /\ new_grades # Dict(<<>>)) =>
        /\ Cardinality(HeaderAt(text)) = Len(new_grades[2])
        /\ \A k \in 1..Len(new_grades[2]) :
              LET data == new_grades[2][k][2]
                  body == SelectSeq(Tail(Block(text, k)), LAMBDA l : l # EmptyLine)
                  comps == Get(data, "components")[2]
                  graded == Get(data, "letter_grade") # None
                            \/ Get(data, "success_score") # None
                  lead == IF graded THEN 1 ELSE 0
              IN  /\ Len(body) = lead + Len(comps)
                  /\ graded => body[1][1] = "grade"
                  /\ \A i \in 1..Len(comps) :
                        /\ body[lead + i][1] = "score"
                        /\ body[lead + i][2] = Get(comps[i], "name")
                        /\ body[lead + i][4] = Get(comps[i], "score")

\* C21: format_changes returns the empty text for the empty list and a
\* non-empty text for every other list; format_full_grades returns the
\* non-empty placeholder for the empty collection
C21_EmptyInputs ==
    /\ pc = "formatted" => (text = <<>> <=> changes = <<>>)
    /\ (pc = "rendered" /\ new_grades = Dict(<<>>)) =>
           (text = <<NoGradesText>> /\ text # <<>>)

\* the empty list was formatted and nothing was written
C21_Witness ==
    pc = "formatted" /\ changes = <<>> /\ text = <<>>

\* the empty collection was rendered as the placeholder
C21_WitnessPlaceholder ==
    pc = "rendered" /\ new_grades = Dict(<<>>) /\ text = <<NoGradesText>>

\* the stored state has the shape the store itself writes: a dict of
\* course dicts whose components, if any, are a list of dicts
CourseShaped(grades) ==
    /\ IsDict(grades)
    /\ \A k \in 1..Len(grades[2]) :
          /\ IsDict(grades[2][k][2])
          /\ LET comps == GetD(grades[2][k][2], "components", List(<<>>))
             IN  /\ comps[1] = "list"
                 /\ \A j \in 1..Len(comps[2]) : IsDict(comps[2][j])

\* the call on a snapshot with fields left out, against well-shaped state:
\* it returns, the snapshot is what load() gives next, a course without
\* letter_grade or components gets no event of that kind, and in every
\* event a missing success_score, weight or date appears as None
PartialCallCompletes ==
    /\ pc = "returned"
    /\ load(file) = new_grades
    /\ LET c == new_grades[2][1][2]
           comps == GetD(c, "components", List(<<>>))[2]
       IN  /\ ~HasKey(c, "letter_grade") => EventsAt("C1", {"letter_grade"}) = {}
           /\ ~HasKey(c, "components") =>
                  EventsAt("C1", {"new_score", "score_change"}) = {}
           /\ \A i \in 1..Len(changes) :
                 /\ (changes[i].type = "letter_grade"
                        /\ ~HasKey(c, "success_score")) =>
                        changes[i].success_score = None
                 /\ changes[i].type \in {"new_score", "score_change"} =>
                        /\ ~HasKey(comps[1], "weight") => changes[i].weight = None
                        /\ ~HasKey(comps[1], "date") => changes[i].date = None

\* C22 as stated: compare_and_update on a snapshot with optional fields left
\* out completes, persists it, and every missing value, the course name
\* included, appears as None in the events
C22_NullInEvents ==
    (pc \in {"returned", "raised"} /\ new_grades \in PartialSnapshots
       /\ CourseShaped(old_grades)) =>
        /\ PartialCallCompletes
        /\ \A i \in 1..Len(changes) :
              ~HasKey(new_grades[2][1][2], "name") => changes[i].course_name = None

\* C22 amended: as above, but a missing course name appears as the empty
\* text, the default of course_data.get("name", "")
C22_MissingFields ==
    (pc \in {"returned", "raised"} /\ new_grades \in PartialSnapshots
       /\ CourseShaped(old_grades)) =>
        /\ PartialCallCompletes
        /\ \A i \in 1..Len(changes) :
              ~HasKey(new_grades[2][1][2], "name") => changes[i].course_name = Str("")

\* a course without name and success_score whose component has neither
\* weight nor date: letter-grade and new-score events were returned
C22_Witness ==
    /\ pc = "returned"
    /\ new_grades \in PartialSnapshots
    /\ CourseShaped(old_grades)
    /\ LET c == new_grades[2][1][2]
       IN  /\ ~HasKey(c, "name")
           /\ HasKey(c, "components")
           /\ Get(c, "components")[2] # <<>>
           /\ ~HasKey(Get(c, "components")[2][1], "weight")
           /\ ~HasKey(Get(c, "components")[2][1], "date")
    /\ EventsAt("C1", {"new_score"}) # {}

\* a course with every optional field left out, against stored state that
\* has them: the call returned and the snapshot was persisted
C22_WitnessBare ==
    /\ pc = "returned"
    /\ new_grades = Dict(<< <<"C1", Dict(<< <<"code", Str("C1")>> >>)>> >>)
    /\ old_grades \in Snapshots
    /\ old_grades # Dict(<<>>)
    /\ load(file) = new_grades

\* C23: constructing the store writes the empty document when there is no
\* file and leaves an existing file as it is, whatever it holds; the exit of
\* the process does not touch it either
C23_ConstructKeepsDocument ==
    [][/\ (pc = "down" /\ pc' = "idle") =>
             IF file.exists
             THEN file' = file
             ELSE file'.exists /\ file'.text = Dump(Dict(<<>>))
                  /\ load(file') = Dict(<<>>)
       /\ (pc = "idle" /\ pc' = "down") => file' = file]_vars

\* the store was constructed over a zero-byte file, which is still there
C23_Witness ==
    pc = "idle" /\ file.exists /\ file.text = <<>>

\* the store was constructed again over a snapshot saved before the restart
C23_WitnessRestart ==
    /\ pc = "idle"
    /\ prev_call \in Snapshots
    /\ prev_call # Dict(<<>>)
    /\ file = save(prev_call)

\* the stored courses that hold two or more components with one key
CollidingCourses ==
    {code \in Codes :
        \E j, k \in 1..Len(StoredComponents(code)) :
            /\ j < k
            /\ ComponentKey(StoredComponents(code)[j])
                  = ComponentKey(StoredComponents(code)[k])}

\* C24: with two or more stored components of one (name, weight) key the
\* call returns and persists the snapshot, and a new component of that key
\* is compared with the last stored one of the key only: no event when the
\* scores are equal, else one score-change event whose old score is its score
C24_LastWriteWins ==
    (pc \in {"returned", "raised"} /\ CourseShaped(old_grades)
       /\ CollidingCourses # {}) =>
        /\ pc = "returned"
        /\ load(file) = new_grades
        /\ \A c \in Courses(new_grades) :
              \A j \in 1..Len(Get(c[2], "components")[2]) :
                  LET component == Get(c[2], "components")[2][j]
                      keyed == StoredWithKey(c[1], component)
                      at == ComponentEventsAt(c[1], component)
                  IN  Cardinality(keyed) >= 2 =>
                          LET last == StoredComponents(c[1])[
                                          CHOOSE n \in keyed : \A m \in keyed : m <= n]
                          IN  IF Get(component, "score") = Get(last, "score")
                              THEN at = {}
                              ELSE /\ Cardinality(at) = 1
                                   /\ \A i \in at :
                                         /\ changes[i].type = "score_change"
                                         /\ changes[i].old_score = Get(last, "score")
                                         /\ changes[i].new_score = Get(component, "score")

\* stored Midterm %40 twice, 70 then 75; the new Midterm %40 has 70, and
\* the event reports 75 -> 70
C24_Witness ==
    /\ pc = "returned"
    /\ CourseShaped(old_grades)
    /\ "C1" \in CollidingCourses
    /\ \E i \in 1..Len(changes) :
          /\ changes[i].type = "score_change"
          /\ changes[i].course_code = "C1"
          /\ changes[i].old_score = Num(75)
          /\ changes[i].new_score = Num(70)

\* the same stored state, and the new Midterm %40 has 75, the score of the
\* last stored one: no event for it
C24_WitnessEqual ==
    /\ pc = "returned"
    /\ CourseShaped(old_grades)
    /\ "C1" \in CollidingCourses
    /\ \E c \in Courses(new_grades) :
          /\ c[1] = "C1"
          /\ \E j \in 1..Len(Get(c[2], "components")[2]) :
                LET component == Get(c[2], "components")[2][j]
                IN  /\ Cardinality(StoredWithKey("C1", component)) = 2
                    /\ Get(component, "score") = Num(75)
                    /\ ComponentEventsAt("C1", component) = {}

(***************************************************************************)
(* Properties of the parse step                                            *)
(***************************************************************************)
\* the rows parse_grades keeps, in page order
KeptRows == SelectSeq(rows, LAMBDA r : r.label # <<>> /\ r.score # None)

ParsedComponents == Get(new_grades[2][1][2], "components")[2]

ParsedName(i) == Get(ParsedComponents[i], "name")[2]

EarlierNames(i) == {ParsedName(k) : k \in 1..(i - 1)}

\* C25: the names of the components parse_grades returns for a course are
\* pairwise distinct, so the (name, weight) keys are; a kept row keeps its
\* label when no earlier component has that name, and otherwise gets the
\* label with the first counter from 2 on that gives a name not in use;
\* where no label of the page ends in a counter, the k-th row of a label
\* gets the counter k
C25_DistinctNames ==
    pc = "parsed" =>
        /\ Len(ParsedComponents) = Len(KeptRows)
        /\ \A i, j \in 1..Len(ParsedComponents) :
              i # j => /\ ParsedName(i) # ParsedName(j)
                       /\ ComponentKey(ParsedComponents[i])
                             # ComponentKey(ParsedComponents[j])
        /\ \A i \in 1..Len(KeptRows) :
              LET label == KeptRows[i].label
              IN  IF label \notin EarlierNames(i)
                  THEN ParsedName(i) = label
                  ELSE \E c \in 2..(Len(KeptRows) + 1) :
                          /\ ParsedName(i) = Append(label, c)
                          /\ \A d \in 2..(c - 1) :
                                Append(label, d) \in EarlierNames(i)
        /\ (\A i \in 1..Len(KeptRows) : Len(KeptRows[i].label) = 1) =>
              \A i \in 1..Len(KeptRows) :
                  LET k == Cardinality({n \in 1..i :
                                          KeptRows[n].label = KeptRows[i].label})
                  IN  ParsedName(i) = IF k = 1 THEN KeptRows[i].label
                                      ELSE Append(KeptRows[i].label, k)

\* the page shows "Midterms", "Midterms 2", "Midterms": the third row is
\* named "Midterms 3"
C25_Witness ==
    /\ pc = "parsed"
    /\ Len(KeptRows) = 3
    /\ KeptRows[1].label = <<"Midterms">>
    /\ KeptRows[2].label = <<"Midterms", 2>>
    /\ KeptRows[3].label = <<"Midterms">>
    /\ ParsedName(3) = <<"Midterms", 3>>

\* the page shows "Midterms" three times
C25_WitnessRepeats ==
    /\ pc = "parsed"
    /\ Len(KeptRows) = 3
    /\ \A i \in 1..3 : KeptRows[i].label = <<"Midterms">>
    /\ ParsedName(2) = <<"Midterms", 2>>
    /\ ParsedName(3) = <<"Midterms", 3>>

(***************************************************************************)
(* Properties of the monitoring loop under start and stop                  *)
(***************************************************************************)
\* C26: a loop task starts sending a change notification only at the end of
\* a cycle that returned a result with a non-empty event list, the events
\* it then sends; after the send it sleeps or ends, so a cycle sends once
C26_NotifyOnlyOnChanges ==
    [][\A t \in MonTasks :
          /\ (tpc'[t] = "send_changes" /\ tpc[t] # "send_changes") =>
                /\ tpc[t] = "close"
                /\ tres[t] = "ok"
                /\ tchanges[t] # <<>>
                /\ tchanges'[t] = tchanges[t]
          /\ tpc[t] = "send_changes" =>
                tpc'[t] \in {"send_changes", "sleep", "idle"}]_vars

\* a cycle of the loop ends with a result and no event: nothing to send
C26_Witness ==
    \E t \in MonTasks :
        /\ tpc[t] = "close"
        /\ tres[t] = "ok"
        /\ tchanges[t] = <<>>
        /\ check_count > 0

\* a cycle of the loop found events and sends them
C26_WitnessSend ==
    \E t \in MonTasks : tpc[t] = "send_changes" /\ tchanges[t] # <<>>

\* C27: the events a cycle of the loop got from compare_and_update, which
\* has replaced the baseline, are let go of only once the loop has started
\* to send their notification, unless the task is being cancelled
C27_NoChangeLost ==
    [][\A t \in MonTasks :
          (tchanges[t] # <<>> /\ tchanges'[t] = <<>> /\ ~cancelled[t]) =>
              tpc[t] = "send_changes"]_vars

\* the monitoring-loop tasks whose coroutine has not ended
LoopTasks == {t \in MonTasks : tpc[t] # "idle"}

\* C28: whenever no handler is running, monitoring is True exactly when a
\* monitoring-loop task exists, and there is at most one such task
C28_FlagIffOneTask ==
    tpc[Dispatcher] = "idle" =>
        /\ monitoring <=> LoopTasks # {}
        /\ Cardinality(LoopTasks) <= 1

\* C29: while monitoring is off and no handler is running, so after a stop
\* has completed and before the next start, no loop task begins a check
\* cycle, none replaces the stored state and none starts to send a change
\* notification
C29_StoppedLoopIsQuiet ==
    [][(~monitoring /\ tpc[Dispatcher] = "idle") =>
          /\ file' = file
          /\ \A t \in MonTasks :
                /\ tpc'[t] = "fetch_grades" => tpc[t] = "fetch_grades"
                /\ tpc'[t] = "send_changes" => tpc[t] = "send_changes"]_vars

\* C30: a task leaves the close that ends _perform_check, whatever the cycle
\* came to, with no browser and logged_in False
C30_CycleEndsClosed ==
    [][\A t \in Tasks :
          (tpc[t] = "close" /\ tpc'[t] # "close") =>
              (~browser' /\ ~logged_in')]_vars

(***************************************************************************)
(* Properties of the identity rule                                         *)
(***************************************************************************)
\* the (name, weight, score) triples of a component list
Triples(comps) ==
    {<<Get(comps[k], "name"), Get(comps[k], "weight"), Get(comps[k], "score")>> :
        k \in 1..Len(comps)}

\* every course of the new snapshot has the letter grade it has in the
\* stored state and the same set of (name, weight, score) components
SameGrades ==
    \A c \in Courses(new_grades) :
        /\ Get(c[2], "letter_grade") = Get(StoredCourse(c[1]), "letter_grade")
        /\ Triples(Get(c[2], "components")[2]) = Triples(StoredComponents(c[1]))

\* C32: when every course has the letter grade and the set of (name,
\* weight, score) components that are stored, compare_and_update returns
\* the empty list, whatever differs in course name, success score,
\* component dates or component order
C32_NoEventForOtherFields ==
    (pc = "returned" /\ CourseShaped(old_grades) /\ SameGrades) =>
        changes = <<>>

\* the call returned nothing for a course stored under another name and
\* success score, with a component stored under another date
C32_Witness ==
    /\ pc = "returned"
    /\ CourseShaped(old_grades)
    /\ SameGrades
    /\ changes = <<>>
    /\ \E c \in Courses(new_grades) :
          /\ HasKey(old_grades, c[1])
          /\ Get(c[2], "name") # Get(StoredCourse(c[1]), "name")
          /\ Get(c[2], "success_score") # Get(StoredCourse(c[1]), "success_score")
          /\ \E j \in 1..Len(Get(c[2], "components")[2]) :
                \E k \in 1..Len(StoredComponents(c[1])) :
                    LET n == Get(c[2], "components")[2][j]
                        o == StoredComponents(c[1])[k]
                    IN  /\ ComponentKey(n) = ComponentKey(o)
                        /\ Get(n, "date") # Get(o, "date")

\* the call returned nothing for a course whose two components are stored
\* in the other order
C32_WitnessOrder ==
    /\ pc = "returned"
    /\ CourseShaped(old_grades)
    /\ SameGrades
    /\ changes = <<>>
    /\ \E c \in Courses(new_grades) :
          LET comps == Get(c[2], "components")[2]
          IN  /\ Len(comps) = 2
              /\ Len(StoredComponents(c[1])) = 2
              /\ ComponentKey(comps[1]) = ComponentKey(StoredComponents(c[1])[2])
              /\ ComponentKey(comps[2]) = ComponentKey(StoredComponents(c[1])[1])

(***************************************************************************)
(* Properties of the login                                                 *)
(***************************************************************************)
\* C31: login makes at most max_attempts attempts and, once an attempt has
\* begun, ends by returning: True with logged_in set, or False with every
\* attempt used and logged_in not set; it does not end with an exception
C31_LoginReturns ==
    /\ attempt <= max_attempts
    /\ pc = "returned_true" => logged_in
    /\ pc = "returned_false" => (attempt = max_attempts /\ ~logged_in)
    /\ attempt > 0 => pc # "raised"

\* the part of C31 that does not depend on how an exception outside the try
\* ends: the bound on the attempts and the two returns
LoginBounded ==
    /\ attempt <= max_attempts
    /\ pc = "returned_true" => logged_in
    /\ pc = "returned_false" => (attempt = max_attempts /\ ~logged_in)
    /\ (logged_in /\ pc # "idle") => pc = "returned_true"

====
